---- MODULE Spec2Model ----
(***************************************************************************)
(* A model of skill_package/scripts/analyze_repo.py, the KonMari           *)
(* repository analyzer: the confidence scorer, the detectors that walk the *)
(* tree, the git archaeology and the aggregation done by analyze_repo.     *)
(*                                                                         *)
(* Strings are TLA+ strings in the state; the operators that look inside a *)
(* string work on Chars(s), its sequence of one-character strings.         *)
(***************************************************************************)
EXTENDS Integers, Sequences, FiniteSets, TLC

VARIABLES
    call,       \* a call of one pure function: its arguments and its result
    pc,         \* the statement of analyze_repo that runs next
    env,        \* what the run reads: the tree under the path and the git around it
    loc,        \* the local variables of analyze_repo assigned so far
    analysis,   \* <<>>, then <<the report analyze_repo returns>>
    err         \* <<>>, then <<the exception that left analyze_repo>>

vars == <<call, pc, env, loc, analysis, err>>

run == <<pc, env, loc, analysis, err>>

\* No run of analyze_repo: the state of the specifications of one pure function
NoRun == pc = "none" /\ env = <<>> /\ loc = <<>> /\ analysis = <<>> /\ err = <<>>

----------------------------------------------------------------------------
(* Bounds of the model.                                                    *)

\* File ages run from MaxFutureDays days in the future to MaxAgeDays days.
MaxFutureDays == 3
MaxAgeDays == 200

AgeRange == (0 - MaxFutureDays)..MaxAgeDays

\* find_duplicates is run on every walk of at most MaxDupFiles files of a small
\* universe of names, and on bulk trees of up to MaxBulkKeys distinct keys.
MaxDupFiles == 3
MaxBulkKeys == 22

\* The requirements reconciler is run on every requirements file of at most
\* MaxReqLines lines against every import set of at most MaxImports names.
MaxReqLines == 2
MaxImports == 2

\* analyze_repo is run on every tree of at most MaxFiles files of a universe of
\* files; one document of it has MaxBrokenRefs broken references.
MaxFiles == 2
MaxBrokenRefs == 7

\* find_documentation_drift is run on every walk of at most MaxDriftFiles files of
\* a universe of documents and link targets.
MaxDriftFiles == 3

\* find_orphaned_configs is run on every tree of at most MaxConfigFiles files of a
\* universe of configuration files and manifests.
MaxConfigFiles == 3

\* analyze_commits is run on every git log of at most MaxCommits commits of a
\* universe of commits.
MaxCommits == 2

\* check_cleanliness is run on every summary whose counts are at most MaxCount.
MaxCount == 3

\* analyze_repo is run twice on every tree of at most MaxNarrativeFiles files of a
\* universe of files with findings; the calls of random.choice of a run follow
\* every sequence of MaxDraws draws.
MaxNarrativeFiles == 2
MaxDraws == 2

\* find_dead_files is run on every tree of at most MaxDeadFiles files of a universe
\* of file names in several directories.
MaxDeadFiles == 3

\* find_all_orphaned_deps is run on every tree of at most MaxDepFiles files of a
\* universe of manifests and source files.
MaxDepFiles == 3

\* find_legacy_code is run on trees of up to MaxLegacyFiles files that bear markers,
\* with a few other files before and after them.
MaxLegacyFiles == 17

\* The walks of the detectors are compared on every tree of at most MaxWalkFiles
\* files in a universe of directories.
MaxWalkFiles == 2

\* analyze_repo is run on every tree of at most MaxReportFiles files of a universe
\* of files of every category, with dead files of the ages around each threshold.
MaxReportFiles == 2

\* find_all_orphaned_deps is run on every tree of at most MaxManifestFiles files of
\* a universe of manifests at the root and in directories.
MaxManifestFiles == 3

----------------------------------------------------------------------------
(* Strings.                                                                *)

Chars(s) == [i \in 1..Len(s) |-> SubSeq(s, i, i)]

RECURSIVE Join(_)
Join(cs) == IF cs = <<>> THEN "" ELSE cs[1] \o Join(Tail(cs))

UpperChars == Chars("ABCDEFGHIJKLMNOPQRSTUVWXYZ")
LowerChars == Chars("abcdefghijklmnopqrstuvwxyz")
DigitChars == Chars("0123456789")

Range(f) == {f[i] : i \in DOMAIN f}

\* str.lower() on one character (ASCII).
LowerChar(c) ==
    IF \E i \in 1..26 : UpperChars[i] = c
    THEN LowerChars[CHOOSE i \in 1..26 : UpperChars[i] = c]
    ELSE c

\* str.lower()
lower(cs) == [i \in 1..Len(cs) |-> LowerChar(cs[i])]

\* cs[from..] starts with sub (from is 1-based)
OccursAt(cs, sub, from) ==
    /\ from >= 1
    /\ from + Len(sub) - 1 <= Len(cs)
    /\ \A i \in 1..Len(sub) : cs[from + i - 1] = sub[i]

startswith(cs, sub) == OccursAt(cs, sub, 1)
endswith(cs, sub) == OccursAt(cs, sub, Len(cs) - Len(sub) + 1)
contains(cs, sub) == \E i \in 1..(Len(cs) + 1) : OccursAt(cs, sub, i)

\* str.replace(old, new) for a non-empty old: every non-overlapping occurrence,
\* leftmost first, in one pass over the string.
RECURSIVE replace(_, _, _)
replace(cs, old, new) ==
    IF cs = <<>> THEN <<>>
    ELSE IF OccursAt(cs, old, 1)
         THEN new \o replace(SubSeq(cs, Len(old) + 1, Len(cs)), old, new)
         ELSE <<cs[1]>> \o replace(Tail(cs), old, new)

\* str.rfind(c): the last index of character c, 0 when absent (Python's -1).
rfind(cs, c) ==
    IF \E i \in 1..Len(cs) : cs[i] = c
    THEN CHOOSE i \in 1..Len(cs) : cs[i] = c /\ \A j \in (i + 1)..Len(cs) : cs[j] # c
    ELSE 0

\* str.split(sep)[0] for a one-character separator
SplitFirst(cs, seps) ==
    IF \E i \in 1..Len(cs) : cs[i] \in seps
    THEN SubSeq(cs, 1, (CHOOSE i \in 1..Len(cs) :
                          cs[i] \in seps /\ \A j \in 1..(i - 1) : cs[j] \notin seps) - 1)
    ELSE cs

WhitespaceChars == {" ", "\t", "\n", "\r"}

\* str.strip()
RECURSIVE lstrip(_)
lstrip(cs) == IF cs # <<>> /\ cs[1] \in WhitespaceChars THEN lstrip(Tail(cs)) ELSE cs
RECURSIVE rstrip(_)
rstrip(cs) ==
    IF cs # <<>> /\ cs[Len(cs)] \in WhitespaceChars
    THEN rstrip(SubSeq(cs, 1, Len(cs) - 1)) ELSE cs
strip(cs) == rstrip(lstrip(cs))

----------------------------------------------------------------------------
(* Regular expressions (the re module), as syntax trees. ReEnds gives the  *)
(* positions (0..Len) at which a match of r that starts at a position of P *)
(* can end; ic is re.IGNORECASE.                                           *)

Lit(str) == [t |-> "lit", s |-> Chars(str)]
Dot == [t |-> "dot"]
Cls(set) == [t |-> "cls", cs |-> set, neg |-> FALSE]
NotCls(set) == [t |-> "cls", cs |-> set, neg |-> TRUE]
Cat(rs) == [t |-> "cat", rs |-> rs]
Alt(rs) == [t |-> "alt", rs |-> rs]
Star(r) == [t |-> "star", r |-> r]
Plus(r) == Cat(<<r, Star(r)>>)
Opt(r) == Alt(<<r, Cat(<<>>)>>)
Bol == [t |-> "bol"]
Eol == [t |-> "eol"]
WordB == [t |-> "wordb"]

Digit == Cls(Range(DigitChars))
Space == Cls(WhitespaceChars)
WordChars == Range(DigitChars) \cup Range(UpperChars) \cup Range(LowerChars) \cup {"_"}
Word == Cls(WordChars)

CharEq(a, b, ic) == IF ic THEN LowerChar(a) = LowerChar(b) ELSE a = b

CharIn(a, set, ic) == \E b \in set : CharEq(a, b, ic)

IsBoundary(cs, p) ==
    LET before == p >= 1 /\ cs[p] \in WordChars
        after == p < Len(cs) /\ cs[p + 1] \in WordChars
    IN  before # after

RECURSIVE ReEnds(_, _, _, _)
RECURSIVE CatEnds(_, _, _, _, _)
RECURSIVE StarEnds(_, _, _, _, _)

CatEnds(rs, i, cs, ic, P) ==
    IF i > Len(rs) \/ P = {} THEN P
    ELSE CatEnds(rs, i + 1, cs, ic, ReEnds(rs[i], cs, ic, P))

StarEnds(r, cs, ic, frontier, seen) ==
    IF frontier = {} THEN seen
    ELSE LET more == ReEnds(r, cs, ic, frontier) \ seen
         IN  StarEnds(r, cs, ic, more, seen \cup more)

ReEnds(r, cs, ic, P) ==
    CASE r.t = "lit" ->
           {p + Len(r.s) : p \in {q \in P :
               /\ q + Len(r.s) <= Len(cs)
               /\ \A i \in 1..Len(r.s) : CharEq(cs[q + i], r.s[i], ic)}}
      [] r.t = "dot" ->
           {p + 1 : p \in {q \in P : q < Len(cs) /\ cs[q + 1] # "\n"}}
      [] r.t = "cls" ->
           {p + 1 : p \in {q \in P : q < Len(cs) /\ (CharIn(cs[q + 1], r.cs, ic) # r.neg)}}
      [] r.t = "cat" -> CatEnds(r.rs, 1, cs, ic, P)
      [] r.t = "alt" -> UNION {ReEnds(r.rs[i], cs, ic, P) : i \in 1..Len(r.rs)}
      [] r.t = "star" -> StarEnds(r.r, cs, ic, P, P)
      [] r.t = "bol" -> {p \in P : p = 0}
      [] r.t = "eol" ->
           {p \in P : p = Len(cs) \/ (p = Len(cs) - 1 /\ cs[Len(cs)] = "\n")}
      [] r.t = "wordb" -> {p \in P : IsBoundary(cs, p)}

\* re.match(pattern, string, flags) is not None
re_match(r, cs, ic) == ReEnds(r, cs, ic, {0}) # {}

\* re.search(pattern, string, flags) is not None
re_search(r, cs, ic) == ReEnds(r, cs, ic, 0..Len(cs)) # {}

----------------------------------------------------------------------------
(* Confidence scoring.                                                     *)

Max2(a, b) == IF a >= b THEN a ELSE b
Min2(a, b) == IF a <= b THEN a ELSE b

\* calculate_confidence with the age bonus tested with >= 90 for > 90.
calculate_confidence_ge90(matches_pattern, is_ai_artifact, is_duplicate, is_imported, age_days) ==
    LET s3 == 50 + (IF matches_pattern THEN 20 ELSE 0) + (IF is_ai_artifact THEN 15 ELSE 0)
                 + (IF is_duplicate THEN 15 ELSE 0)
        s4 == IF age_days > 180 THEN s3 + 15
              ELSE IF age_days >= 90 THEN s3 + 10
              ELSE IF age_days > 60 THEN s3 + 5
              ELSE s3
        s5 == IF age_days < 14 THEN s4 - 35
              ELSE IF age_days < 30 THEN s4 - 20
              ELSE s4
        s6 == IF is_imported THEN s5 - 40 ELSE s5
    IN  Max2(0, Min2(100, s6))

\* calculate_confidence with the two recency tests in the wrong order, so that
\* the -35 branch is never taken.
calculate_confidence_swapped(matches_pattern, is_ai_artifact, is_duplicate, is_imported, age_days) ==
    LET s3 == 50 + (IF matches_pattern THEN 20 ELSE 0) + (IF is_ai_artifact THEN 15 ELSE 0)
                 + (IF is_duplicate THEN 15 ELSE 0)
        s4 == IF age_days > 180 THEN s3 + 15
              ELSE IF age_days > 90 THEN s3 + 10
              ELSE IF age_days > 60 THEN s3 + 5
              ELSE s3
        s5 == IF age_days < 30 THEN s4 - 20
              ELSE IF age_days < 14 THEN s4 - 35
              ELSE s4
        s6 == IF is_imported THEN s5 - 40 ELSE s5
    IN  Max2(0, Min2(100, s6))

\* calculate_confidence with the age bonuses in reverse: the oldest files get the least.
calculate_confidence_bonus_reversed(matches_pattern, is_ai_artifact, is_duplicate, is_imported, age_days) ==
    LET s3 == 50 + (IF matches_pattern THEN 20 ELSE 0) + (IF is_ai_artifact THEN 15 ELSE 0)
                 + (IF is_duplicate THEN 15 ELSE 0)
        s4 == IF age_days > 180 THEN s3 + 5
              ELSE IF age_days > 90 THEN s3 + 10
              ELSE IF age_days > 60 THEN s3 + 15
              ELSE s3
        s5 == IF age_days < 14 THEN s4 - 35
              ELSE IF age_days < 30 THEN s4 - 20
              ELSE s4
        s6 == IF is_imported THEN s5 - 40 ELSE s5
    IN  Max2(0, Min2(100, s6))

\* calculate_confidence: file_info is never read, so it is no parameter.
calculate_confidence(matches_pattern, is_ai_artifact, is_duplicate, is_imported, age_days) ==
    LET s0 == 50
        s1 == IF matches_pattern THEN s0 + 20 ELSE s0
        s2 == IF is_ai_artifact THEN s1 + 15 ELSE s1
        s3 == IF is_duplicate THEN s2 + 15 ELSE s2
        s4 == IF age_days > 180 THEN s3 + 15
              ELSE IF age_days > 90 THEN s3 + 10
              ELSE IF age_days > 60 THEN s3 + 5
              ELSE s3
        s5 == IF age_days < 14 THEN s4 - 35
              ELSE IF age_days < 30 THEN s4 - 20
              ELSE s4
        s6 == IF is_imported THEN s5 - 40 ELSE s5
    IN  Max2(0, Min2(100, s6))

----------------------------------------------------------------------------
(* Generic helpers on sequences.                                           *)

RECURSIVE Flatten(_)
\* the concatenation of the sequences of a sequence
Flatten(seqs) == IF seqs = <<>> THEN <<>> ELSE seqs[1] \o Flatten(Tail(seqs))

\* seq[:n]
Take(seq, n) == SubSeq(seq, 1, Min2(n, Len(seq)))

RECURSIVE InsertDesc(_, _, _)
\* index x put into the index list sorted (by non-increasing key), after every
\* index of an equal key
InsertDesc(sorted, x, keys) ==
    IF sorted = <<>> THEN <<x>>
    ELSE IF keys[sorted[1]] >= keys[x]
         THEN <<sorted[1]>> \o InsertDesc(Tail(sorted), x, keys)
         ELSE <<x>> \o sorted

RECURSIVE SortedDescFrom(_, _, _)
SortedDescFrom(keys, i, acc) ==
    IF i > Len(keys) THEN acc
    ELSE SortedDescFrom(keys, i + 1, InsertDesc(acc, i, keys))

\* sorted(seq, key=..., reverse=True), keys[i] being the key of seq[i]: stable,
\* elements of equal keys keep their order
sorted_reverse(seq, keys) ==
    \* (the CHOOSE binds the order, which is computed once)
    LET order == CHOOSE o \in {SortedDescFrom(keys, 1, <<>>)} : TRUE
    IN  [i \in 1..Len(seq) |-> seq[order[i]]]

\* [x[field] for x in seq]
Column(seq, field) == [i \in 1..Len(seq) |-> seq[i][field]]

RECURSIVE InsertAsc(_, _)
InsertAsc(sorted, x) ==
    IF sorted = <<>> THEN <<x>>
    ELSE IF sorted[1] <= x THEN <<sorted[1]>> \o InsertAsc(Tail(sorted), x)
         ELSE <<x>> \o sorted

RECURSIVE SetToSortedSeq(_)
\* the elements of a finite set of integers, ascending
SetToSortedSeq(S) ==
    IF S = {} THEN <<>>
    ELSE LET m == CHOOSE x \in S : \A y \in S : x <= y
         IN  <<m>> \o SetToSortedSeq(S \ {m})

----------------------------------------------------------------------------
(* Files and paths. A file of the tree is a record                         *)
(*   dir     the directories from the root down to the file, a sequence    *)
(*   name    the file name                                                 *)
(*   age     calculate_age_days of its mtime, were it stat'ed now          *)
(*   stat    "ok", or "oserror" when os.stat raises OSError                *)
(*   open    "ok", or "oserror" when open() raises OSError                 *)
(*   content what the detectors read in it (by kind of file)               *)
(* The tree is the sequence of its files in the order os.walk yields them. *)

RECURSIVE JoinWith(_, _)
JoinWith(parts, sep) ==
    IF parts = <<>> THEN ""
    ELSE IF Len(parts) = 1 THEN parts[1]
    ELSE parts[1] \o sep \o JoinWith(Tail(parts), sep)

\* os.path.relpath(os.path.join(root, file), repo_path)
rel_path(f) == JoinWith(f.dir \o <<f.name>>, "/")

\* pathlib: the index of the dot that starts Path(name).suffix, 0 when there is none
SuffixDot(cs) ==
    LET i == rfind(cs, ".") IN IF 1 < i /\ i < Len(cs) THEN i ELSE 0

\* Path(name).stem
path_stem(cs) == IF SuffixDot(cs) = 0 THEN cs ELSE SubSeq(cs, 1, SuffixDot(cs) - 1)

\* Path(name).suffix
path_suffix(cs) == IF SuffixDot(cs) = 0 THEN <<>> ELSE SubSeq(cs, SuffixDot(cs), Len(cs))

\* The directories every detector's walk prunes besides the dot-directories.
IGNORED_DIRS == {"node_modules", "venv", "__pycache__", "dist", "build", "target"}

\* d.startswith(".")
IsDotDir(d) == startswith(Chars(d), <<".">>)

\* os.walk with dirs[:] pruned: a file is seen when no directory above it is pruned.
Visible(f, ignored, skipDot) ==
    \A i \in 1..Len(f.dir) : ~(skipDot /\ IsDotDir(f.dir[i])) /\ f.dir[i] \notin ignored

walk(files, ignored, skipDot) ==
    LET Seen(f) == Visible(f, ignored, skipDot)
    IN  SelectSeq(files, Seen)

\* calculate_age_days(os.stat(filepath).st_mtime)
calculate_age_days(f) == f.age

----------------------------------------------------------------------------
(* Category 1: dead files.                                                 *)

Pat(src, re) == [src |-> src, re |-> re]

Ext12 ==
    Alt(<<Lit("md"), Lit("py"), Lit("js"), Lit("ts"), Lit("jsx"), Lit("tsx"), Lit("go"),
          Lit("rs"), Lit("txt"), Lit("json"), Lit("yaml"), Lit("yml")>>)
Ext9 ==
    Alt(<<Lit("md"), Lit("py"), Lit("js"), Lit("ts"), Lit("jsx"), Lit("tsx"), Lit("go"),
          Lit("rs"), Lit("txt")>>)
ExtScript == Alt(<<Lit("py"), Lit("js"), Lit("ts")>>)
AnyStr == Star(Dot)

DEAD_FILE_PATTERNS == <<
    Pat(".*_old\\.(md|py|js|ts|jsx|tsx|go|rs|txt|json|yaml|yml)$",
        Cat(<<AnyStr, Lit("_old."), Ext12, Eol>>)),
    Pat(".*_backup\\.(md|py|js|ts|jsx|tsx|go|rs|txt|json|yaml|yml)$",
        Cat(<<AnyStr, Lit("_backup."), Ext12, Eol>>)),
    Pat(".*_bak\\.(md|py|js|ts|jsx|tsx|go|rs|txt|json|yaml|yml)$",
        Cat(<<AnyStr, Lit("_bak."), Ext12, Eol>>)),
    Pat(".*\\.bak$", Cat(<<AnyStr, Lit(".bak"), Eol>>)),
    Pat(".*\\.backup$", Cat(<<AnyStr, Lit(".backup"), Eol>>)),
    Pat(".*\\.old$", Cat(<<AnyStr, Lit(".old"), Eol>>)),
    Pat("^backup_.*", Cat(<<Bol, Lit("backup_"), AnyStr>>)),
    Pat("^old_.*", Cat(<<Bol, Lit("old_"), AnyStr>>)),
    Pat("^temp_.*", Cat(<<Bol, Lit("temp_"), AnyStr>>)),
    Pat("^tmp_.*", Cat(<<Bol, Lit("tmp_"), AnyStr>>)),
    Pat(".*\\.tmp$", Cat(<<AnyStr, Lit(".tmp"), Eol>>)),
    Pat(".*\\.temp$", Cat(<<AnyStr, Lit(".temp"), Eol>>)),
    Pat(".*_v\\d+\\.(md|py|js|ts|jsx|tsx|go|rs|txt)$",
        Cat(<<AnyStr, Lit("_v"), Plus(Digit), Lit("."), Ext9, Eol>>)),
    Pat(".*_copy\\.(md|py|js|ts|jsx|tsx|go|rs|txt)$",
        Cat(<<AnyStr, Lit("_copy."), Ext9, Eol>>)),
    Pat(".*_copy\\d*\\.(md|py|js|ts|jsx|tsx|go|rs|txt)$",
        Cat(<<AnyStr, Lit("_copy"), Star(Digit), Lit("."), Ext9, Eol>>)),
    Pat(".*\\sCopy\\.(md|py|js|ts|jsx|tsx|go|rs|txt)$",
        Cat(<<AnyStr, Space, Lit("Copy."), Ext9, Eol>>)),
    Pat(".*\\s\\(\\d+\\)\\.(md|py|js|ts|jsx|tsx|go|rs|txt)$",
        Cat(<<AnyStr, Space, Lit("("), Plus(Digit), Lit(")."), Ext9, Eol>>)),
    Pat("^draft_.*", Cat(<<Bol, Lit("draft_"), AnyStr>>)),
    Pat("^scratch_.*", Cat(<<Bol, Lit("scratch_"), AnyStr>>)),
    Pat("^notes_.*\\.md$", Cat(<<Bol, Lit("notes_"), AnyStr, Lit(".md"), Eol>>)),
    Pat("^test_.*\\.py$", Cat(<<Bol, Lit("test_"), AnyStr, Lit(".py"), Eol>>)),
    Pat("^debug_.*\\.(py|js|ts)$", Cat(<<Bol, Lit("debug_"), AnyStr, Lit("."), ExtScript, Eol>>)),
    Pat("^scratch.*\\.(py|js|ts)$", Cat(<<Bol, Lit("scratch"), AnyStr, Lit("."), ExtScript, Eol>>)),
    Pat("^experiment.*\\.(py|js|ts)$",
        Cat(<<Bol, Lit("experiment"), AnyStr, Lit("."), ExtScript, Eol>>)),
    Pat("^try_.*\\.(py|js|ts)$", Cat(<<Bol, Lit("try_"), AnyStr, Lit("."), ExtScript, Eol>>)),
    Pat("^check_.*\\.(py|js|ts)$", Cat(<<Bol, Lit("check_"), AnyStr, Lit("."), ExtScript, Eol>>)),
    Pat("^verify_.*\\.(py|js|ts)$", Cat(<<Bol, Lit("verify_"), AnyStr, Lit("."), ExtScript, Eol>>))
>>

Exactly(src, str) == Pat(src, Cat(<<Bol, Lit(str), Eol>>))

AI_TOOL_ARTIFACTS == <<
    Exactly("^CLAUDE-CONTEXT\\.md$", "CLAUDE-CONTEXT.md"),
    Exactly("^PLAN\\.md$", "PLAN.md"),
    Exactly("^DEBUG\\.md$", "DEBUG.md"),
    Exactly("^TODO-claude\\.md$", "TODO-claude.md"),
    Exactly("^NOTES\\.md$", "NOTES.md"),
    Exactly("^context\\.md$", "context.md"),
    Exactly("^session-notes\\.md$", "session-notes.md"),
    Exactly("^AI-CONTEXT\\.md$", "AI-CONTEXT.md"),
    Exactly("^AI-NOTES\\.md$", "AI-NOTES.md"),
    Exactly("^TODO-ai\\.md$", "TODO-ai.md")
>>

\* FirstMatch without the break: the last pattern that matches stays recorded
FirstMatch_no_break(patterns, name, ic) ==
    LET Hit(i) == re_match(patterns[i].re, Chars(name), ic)
    IN  IF \E i \in 1..Len(patterns) : Hit(i)
        THEN CHOOSE i \in 1..Len(patterns) : Hit(i) /\ \A j \in (i + 1)..Len(patterns) : ~Hit(j)
        ELSE 0

\* the index of the first pattern of the list that re.match'es name, 0 when none does
FirstMatch(patterns, name, ic) ==
    LET Hit(i) == re_match(patterns[i].re, Chars(name), ic)
    IN  IF \E i \in 1..Len(patterns) : Hit(i)
        THEN CHOOSE i \in 1..Len(patterns) : Hit(i) /\ \A j \in 1..(i - 1) : ~Hit(j)
        ELSE 0

\* The two pattern loops of find_dead_files: matched_pattern (<<>> for None) and
\* is_ai_artifact of a file name.
ClassifyDeadFile(name) ==
    LET ai == FirstMatch(AI_TOOL_ARTIFACTS, name, TRUE)
        dead == FirstMatch(DEAD_FILE_PATTERNS, name, TRUE)
    IN  IF ai # 0 THEN [matched_pattern |-> <<AI_TOOL_ARTIFACTS[ai].src>>, is_ai_artifact |-> TRUE]
        ELSE IF dead # 0
             THEN [matched_pattern |-> <<DEAD_FILE_PATTERNS[dead].src>>, is_ai_artifact |-> FALSE]
             ELSE [matched_pattern |-> <<>>, is_ai_artifact |-> FALSE]

\* DeadFileFinding scored as if no pattern were an AI artifact
DeadFileFinding_scored_without_ai(f) ==
    LET c == ClassifyDeadFile(f.name)
    IN  IF c.matched_pattern = <<>> \/ f.stat # "ok" THEN <<>>
        ELSE <<[path |-> rel_path(f),
                pattern |-> c.matched_pattern[1],
                age_days |-> calculate_age_days(f),
                confidence |-> calculate_confidence(TRUE, FALSE, FALSE, FALSE,
                                                    calculate_age_days(f)),
                is_ai_artifact |-> c.is_ai_artifact,
                category |-> "dead_files",
                reason |-> "dead_file_pattern"]>>

\* The finding find_dead_files appends for one file (none when nothing matched or
\* os.stat raised OSError).
DeadFileFinding(f) ==
    LET c == ClassifyDeadFile(f.name)
    IN  IF c.matched_pattern = <<>> \/ f.stat # "ok" THEN <<>>
        ELSE <<[path |-> rel_path(f),
                pattern |-> c.matched_pattern[1],
                age_days |-> calculate_age_days(f),
                confidence |-> calculate_confidence(TRUE, c.is_ai_artifact, FALSE, FALSE,
                                                    calculate_age_days(f)),
                is_ai_artifact |-> c.is_ai_artifact,
                category |-> "dead_files",
                reason |-> "dead_file_pattern"]>>

find_dead_files(files) ==
    LET seen == walk(files, IGNORED_DIRS, TRUE)
        dead_files == Flatten([i \in 1..Len(seen) |-> DeadFileFinding(seen[i])])
    IN  sorted_reverse(dead_files, Column(dead_files, "confidence"))

----------------------------------------------------------------------------
(* Category 1, continued: duplicates.                                      *)

\* DUPLICATE_SUFFIXES with the prefix copy_of_ in the list
DUPLICATE_SUFFIXES_with_copy_of ==
    <<"copy_of_", "_old", "_backup", "_copy", "_new", "_v1", "_v2", "_v3", "_final", "_draft",
      "_bak", " copy", " (1)", " (2)">>

DUPLICATE_SUFFIXES ==
    <<"_old", "_backup", "_copy", "_new", "_v1", "_v2", "_v3", "_final", "_draft", "_bak",
      " copy", " (1)", " (2)">>

RECURSIVE RemoveSuffixes_trailing(_, _)
\* RemoveSuffixes that cuts a suffix off the end of the stem only
RemoveSuffixes_trailing(stem, i) ==
    IF i > Len(DUPLICATE_SUFFIXES) THEN stem
    ELSE IF endswith(stem, Chars(DUPLICATE_SUFFIXES[i]))
         THEN RemoveSuffixes_trailing(
                  SubSeq(stem, 1, Len(stem) - Len(Chars(DUPLICATE_SUFFIXES[i]))), i + 1)
         ELSE RemoveSuffixes_trailing(stem, i + 1)

RECURSIVE RemoveSuffixes(_, _)
\* for suffix in [...]: stem = stem.replace(suffix, "")
RemoveSuffixes(stem, i) ==
    IF i > Len(DUPLICATE_SUFFIXES) THEN stem
    ELSE RemoveSuffixes(replace(stem, Chars(DUPLICATE_SUFFIXES[i]), <<>>), i + 1)

\* The key find_duplicates files a name under: (stem, ext)
DuplicateKey(name) ==
    <<Join(RemoveSuffixes(lower(path_stem(Chars(name))), 1)),
      Join(lower(path_suffix(Chars(name))))>>

RECURSIVE GroupByStem_adjacent(_, _, _, _)
\* GroupByStem that only looks at the key added last, as a grouping of adjacent
\* files would.
GroupByStem_adjacent(seen, i, keys, paths) ==
    IF i > Len(seen) THEN [keys |-> keys, paths |-> paths]
    ELSE LET k == DuplicateKey(seen[i].name)
             p == rel_path(seen[i])
             n == Len(keys)
         IN  IF n > 0 /\ keys[n] = k
             THEN GroupByStem_adjacent(seen, i + 1, keys, [paths EXCEPT ![n] = Append(@, p)])
             ELSE GroupByStem_adjacent(seen, i + 1, Append(keys, k), Append(paths, <<p>>))

RECURSIVE GroupByStem(_, _, _, _)
\* files_by_stem after the walk: keys in the order of their first file, and under
\* each key the relative paths in walk order.
GroupByStem(seen, i, keys, paths) ==
    IF i > Len(seen) THEN [keys |-> keys, paths |-> paths]
    ELSE LET k == DuplicateKey(seen[i].name)
             p == rel_path(seen[i])
         IN  IF \E j \in 1..Len(keys) : keys[j] = k
             THEN LET j == CHOOSE j \in 1..Len(keys) : keys[j] = k
                  IN  GroupByStem(seen, i + 1, keys, [paths EXCEPT ![j] = Append(@, p)])
             ELSE GroupByStem(seen, i + 1, Append(keys, k), Append(paths, <<p>>))

\* The groups find_duplicates collects before it sorts and cuts the list.
DuplicateGroups(files) ==
    LET g == CHOOSE x \in {GroupByStem(walk(files, IGNORED_DIRS, TRUE), 1, <<>>, <<>>)} : TRUE
        Group(j) == IF Len(g.paths[j]) > 1
                    THEN <<[base_name |-> g.keys[j][1] \o g.keys[j][2],
                            files |-> Range(g.paths[j]),
                            count |-> Len(g.paths[j]),
                            category |-> "dead_files",
                            confidence |-> 70,
                            reason |-> "potential_duplicates"]>>
                    ELSE <<>>
    IN  Flatten([j \in 1..Len(g.keys) |-> Group(j)])

MAX_DUPLICATE_GROUPS == 20

\* find_duplicates that cuts the list without sorting it first.
find_duplicates_unsorted(files) ==
    LET More(d) == d.count > 1
    IN  Take(SelectSeq(DuplicateGroups(files), More), MAX_DUPLICATE_GROUPS)

find_duplicates(files) ==
    LET More(d) == d.count > 1
        duplicates == SelectSeq(DuplicateGroups(files), More)
    IN  Take(sorted_reverse(duplicates, Column(duplicates, "count")), MAX_DUPLICATE_GROUPS)

----------------------------------------------------------------------------
(* Category 2: dependencies. Python.                                       *)

\* What a detector returns: its list, or the exception that escaped it.
Returned(items) == [raised |-> "none", items |-> items]
Raised(exception) == [raised |-> exception, items |-> <<>>]

\* content[field], or default for a file whose content has no such field
Field(f, field, default) ==
    IF field \in DOMAIN f.content THEN f.content[field] ELSE default

\* The names one Python file adds to all_imports: the first component of every
\* imported module when ast.parse succeeds (a from-import without a module adds
\* none), the words the fallback regex finds on a SyntaxError, nothing when
\* open() raises OSError.
PythonImportsOf(f) ==
    IF f.open # "ok" THEN {}
    ELSE IF Field(f, "parse", "ok") = "ok"
         THEN {Join(SplitFirst(Chars(m), {"."})) :
                  m \in {x \in Range(Field(f, "imports", <<>>)) : x # ""}}
         ELSE IF Field(f, "parse", "ok") = "SyntaxError"
              THEN Range(Field(f, "regex_imports", <<>>))
              ELSE {}

\* ast.parse raises something else than SyntaxError (RecursionError for a long
\* chain of operators or attributes, ValueError for a null byte in older releases):
\* nothing catches it.
PythonParseEscapes(f) ==
    f.open = "ok" /\ Field(f, "parse", "ok") \notin {"ok", "SyntaxError"}

PythonFiles(files) ==
    LET IsPy(f) == endswith(Chars(f.name), Chars(".py"))
    IN  SelectSeq(walk(files, IGNORED_DIRS, TRUE), IsPy)

\* pkg = re.split(r"[=<>!~\[\]]", line)[0].strip()
RequirementName(line) ==
    Join(strip(SplitFirst(Chars(line), {"=", "<", ">", "!", "~", "[", "]"})))

\* line and not line.startswith("#") and not line.startswith("-"), line stripped
IsRequirementLine(stripped) ==
    /\ stripped # <<>>
    /\ ~startswith(stripped, <<"#">>)
    /\ ~startswith(stripped, <<"-">>)

\* pkg.replace("-", "_").lower()
pkg_normalized(pkg) == Join(lower(replace(Chars(pkg), <<"-">>, <<"_">>)))

\* imported, with only the case-insensitive comparison of the raw names
imported_raw_only(pkg, all_imports) ==
    \E imp \in all_imports : Join(lower(Chars(imp))) = Join(lower(Chars(pkg)))

\* imported = any(... for imp in all_imports)
imported(pkg, all_imports) ==
    \E imp \in all_imports :
        \/ Join(lower(Chars(imp))) = pkg_normalized(pkg)
        \/ Join(lower(Chars(imp))) = Join(lower(Chars(pkg)))
        \/ Join(replace(lower(Chars(imp)), <<"-">>, <<"_">>)) = pkg_normalized(pkg)

\* The orphans one requirements file adds: the loop over its lines.
ReconcileRequirements(req_file, lines, all_imports) ==
    LET Orphan(line) ==
            LET stripped == strip(Chars(line))
                pkg == RequirementName(Join(stripped))
            IN  IF IsRequirementLine(stripped) /\ ~imported(pkg, all_imports) /\ pkg # ""
                THEN <<[package |-> pkg, source |-> req_file, ecosystem |-> "python",
                        category |-> "dependencies", confidence |-> 65,
                        reason |-> "package_not_imported"]>>
                ELSE <<>>
    IN  Flatten([i \in 1..Len(lines) |-> Orphan(lines[i])])

REQUIREMENTS_FILES == <<"requirements.txt", "requirements-dev.txt", "requirements-test.txt">>

\* RootFile that takes the files of that name in any directory
RootFile_any_dir(files, name) ==
    {files[i] : i \in {k \in 1..Len(files) : files[k].name = name}}

\* os.path.exists(os.path.join(repo_path, name)) for a file name
RootFile(files, name) ==
    {files[i] : i \in {k \in 1..Len(files) : files[k].dir = <<>> /\ files[k].name = name}}

RootExists(files, name) == RootFile(files, name) # {}

\* The file opened at the root under that name (it exists)
TheRootFile(files, name) == CHOOSE f \in RootFile(files, name) : TRUE

find_orphaned_python_deps(files) ==
    LET py == PythonFiles(files)
        all_imports == UNION {PythonImportsOf(py[i]) : i \in 1..Len(py)}
        \* a requirements file that is not valid UTF-8: UnicodeDecodeError, a
        \* ValueError, passes the except (IOError, OSError)
        Undecodable(name) ==
            /\ RootExists(files, name)
            /\ TheRootFile(files, name).open = "ok"
            /\ ~Field(TheRootFile(files, name), "decodable", TRUE)
        OrphansOf(name) ==
            IF RootExists(files, name) /\ TheRootFile(files, name).open = "ok"
            THEN ReconcileRequirements(name, Field(TheRootFile(files, name), "lines", <<>>),
                                       all_imports)
            ELSE <<>>
        first_escape ==
            CHOOSE i \in 1..Len(py) :
                PythonParseEscapes(py[i]) /\ \A j \in 1..(i - 1) : ~PythonParseEscapes(py[j])
    IN  IF \E i \in 1..Len(py) : PythonParseEscapes(py[i])
        THEN Raised(py[first_escape].content.parse)
        ELSE IF \E i \in 1..3 : Undecodable(REQUIREMENTS_FILES[i])
             THEN Raised("UnicodeDecodeError")
             ELSE Returned(Flatten([i \in 1..3 |-> OrphansOf(REQUIREMENTS_FILES[i])]))

----------------------------------------------------------------------------
(* Category 2, continued: JavaScript, Go, Rust.                            *)

\* What open() and json.load() make of a manifest file: "OSError" (open failed),
\* "UnicodeDecodeError" (not text in the encoding asked), "JSONDecodeError" (text that
\* is not JSON), else "ok" and the value is f.content.
LoadJson(f) ==
    IF f.open # "ok" THEN "OSError"
    ELSE IF ~Field(f, "decodable", TRUE) THEN "UnicodeDecodeError"
    ELSE IF Field(f, "json", "ok") # "ok" THEN "JSONDecodeError"
    ELSE "ok"

\* The JSON value of a package.json: top is the type of the document ("object",
\* "array", "string", "number"), members the members of an object; a member is
\* [type |-> "object", keys |-> <<...>>] or of another type.
JsonTop(f) == Field(f, "top", "object")
JsonMembers(f) == Field(f, "members", [x \in {} |-> x])

\* dep_type in pkg_data, for dep_type one of the dependency tables: "TypeError" when
\* the document is a number, FALSE for an array or string that does not hold the word
HasMember(f, key) ==
    IF JsonTop(f) = "number" THEN "TypeError"
    ELSE IF JsonTop(f) = "object" /\ key \in DOMAIN JsonMembers(f) THEN "yes"
    ELSE "no"

\* for dep_type in dep_types: if dep_type in pkg: names.update(pkg[dep_type].keys())
\* The names in table order, or the exception raised on the way.
RECURSIVE CollectDeps(_, _, _, _)
CollectDeps(f, dep_types, i, acc) ==
    IF i > Len(dep_types) THEN Returned(acc)
    ELSE IF HasMember(f, dep_types[i]) = "TypeError" THEN Raised("TypeError")
    ELSE IF HasMember(f, dep_types[i]) = "no" THEN CollectDeps(f, dep_types, i + 1, acc)
    ELSE IF JsonMembers(f)[dep_types[i]].type # "object" THEN Raised("AttributeError")
    ELSE LET New(k) == k \notin Range(acc)
         IN  CollectDeps(f, dep_types, i + 1,
                         acc \o SelectSeq(JsonMembers(f)[dep_types[i]].keys, New))

JS_EXTENSIONS == {".js", ".jsx", ".ts", ".tsx", ".mjs", ".cjs"}

EndsWithAny(name, suffixes) == \E s \in suffixes : endswith(Chars(name), Chars(s))

\* str.split(sep) for a one-character separator
RECURSIVE split(_, _)
split(cs, sep) ==
    IF \E i \in 1..Len(cs) : cs[i] = sep
    THEN LET i == CHOOSE i \in 1..Len(cs) : cs[i] = sep /\ \A j \in 1..(i - 1) : cs[j] # sep
         IN  <<SubSeq(cs, 1, i - 1)>> \o split(SubSeq(cs, i + 1, Len(cs)), sep)
    ELSE <<cs>>

\* What one match of the import patterns (a quoted name that starts with neither a
\* dot nor a slash) adds to all_imports: @scope/name for a scoped package (nothing
\* for a bare @scope), else the text before the first slash.
JsImportBase(match) ==
    LET parts == split(Chars(match), "/")
    IN  IF startswith(Chars(match), <<"@">>)
        THEN IF Len(parts) >= 2 THEN {Join(parts[1]) \o "/" \o Join(parts[2])} ELSE {}
        ELSE {Join(parts[1])}

JsImportsOf(f) ==
    IF f.open # "ok" THEN {}
    ELSE UNION {JsImportBase(m) : m \in Range(Field(f, "import_literals", <<>>))}

JsFiles(files) ==
    LET IsJs(f) == EndsWithAny(f.name, JS_EXTENSIONS)
    IN  SelectSeq(walk(files, IGNORED_DIRS, TRUE), IsJs)

JsOrphan(pkg) ==
    [package |-> pkg, source |-> "package.json", ecosystem |-> "javascript",
     category |-> "dependencies", confidence |-> 60, reason |-> "package_not_imported"]

\* find_orphaned_js_deps with except IOError alone
find_orphaned_js_deps_ioerror_only(files) ==
    IF ~RootExists(files, "package.json") THEN Returned(<<>>)
    ELSE LET f == TheRootFile(files, "package.json")
             js == JsFiles(files)
             all_imports == UNION {JsImportsOf(js[i]) : i \in 1..Len(js)}
             declared ==
                 CollectDeps(f, <<"dependencies", "devDependencies", "peerDependencies">>,
                             1, <<>>)
             NotImported(pkg) == pkg \notin all_imports
         IN  IF LoadJson(f) = "OSError" THEN Returned(<<>>)
             ELSE IF LoadJson(f) # "ok" THEN Raised(LoadJson(f))
             ELSE IF declared.raised # "none" THEN declared
             ELSE Returned([i \in 1..Len(SelectSeq(declared.items, NotImported)) |->
                               JsOrphan(SelectSeq(declared.items, NotImported)[i])])

find_orphaned_js_deps(files) ==
    IF ~RootExists(files, "package.json") THEN Returned(<<>>)
    ELSE LET f == TheRootFile(files, "package.json")
             js == JsFiles(files)
             all_imports == UNION {JsImportsOf(js[i]) : i \in 1..Len(js)}
             declared ==
                 CollectDeps(f, <<"dependencies", "devDependencies", "peerDependencies">>,
                             1, <<>>)
             NotImported(pkg) == pkg \notin all_imports
         IN  IF LoadJson(f) \in {"OSError", "JSONDecodeError"} THEN Returned(<<>>)
             ELSE IF LoadJson(f) # "ok" THEN Raised(LoadJson(f))
             ELSE IF declared.raised # "none" THEN declared
             ELSE Returned([i \in 1..Len(SelectSeq(declared.items, NotImported)) |->
                               JsOrphan(SelectSeq(declared.items, NotImported)[i])])

GO_IGNORED_DIRS == {"vendor", ".git", "node_modules"}

GoImportsOf(f) == IF f.open # "ok" THEN {} ELSE Range(Field(f, "imports", <<>>))

GoFiles(files) ==
    LET IsGo(f) == endswith(Chars(f.name), Chars(".go"))
    IN  SelectSeq(walk(files, GO_IGNORED_DIRS, TRUE), IsGo)

GoOrphan(mod) ==
    [package |-> mod, source |-> "go.mod", ecosystem |-> "go",
     category |-> "dependencies", confidence |-> 65, reason |-> "module_not_imported"]

RECURSIVE Dedup(_)
\* the elements of a sequence, each once, in the order of first appearance
Dedup(seq) ==
    IF seq = <<>> THEN <<>>
    ELSE LET Other(x) == x # seq[1]
         IN  <<seq[1]>> \o Dedup(SelectSeq(Tail(seq), Other))

find_orphaned_go_deps(files) ==
    IF ~RootExists(files, "go.mod") THEN Returned(<<>>)
    ELSE LET f == TheRootFile(files, "go.mod")
             go == GoFiles(files)
             all_imports == UNION {GoImportsOf(go[i]) : i \in 1..Len(go)}
             \* the module paths the two require regexes find in go.mod
             declared == Dedup(Field(f, "requires", <<>>))
             \* not any(imp.startswith(mod) or mod in imp for imp in all_imports)
             Unused(mod) ==
                 ~\E imp \in all_imports :
                     \/ startswith(Chars(imp), Chars(mod))
                     \/ contains(Chars(imp), Chars(mod))
         IN  IF f.open # "ok" THEN Returned(<<>>)
             ELSE IF ~Field(f, "decodable", TRUE) THEN Raised("UnicodeDecodeError")
             ELSE Returned([i \in 1..Len(SelectSeq(declared, Unused)) |->
                               GoOrphan(SelectSeq(declared, Unused)[i])])

RUST_IGNORED_DIRS == {"target", "node_modules"}

\* re.match(r"\[(.*dependencies.*)\]", line)
CargoSectionRe == Cat(<<Lit("["), AnyStr, Lit("dependencies"), AnyStr, Lit("]")>>)

RECURSIVE CargoCrates(_, _, _, _)
\* The loop over the lines of Cargo.toml: the crates declared, in_deps being whether
\* the last section header seen was a dependencies table.
CargoCrates(lines, i, in_deps, acc) ==
    IF i > Len(lines) THEN acc
    ELSE LET line == Chars(lines[i])
             crate == Join(strip(split(line, "=")[1]))
         IN  IF re_match(CargoSectionRe, line, FALSE)
             THEN CargoCrates(lines, i + 1, TRUE, acc)
             ELSE LET still == in_deps /\ ~startswith(line, <<"[">>)
                  IN  IF /\ still
                         /\ contains(line, <<"=">>)
                         /\ crate # ""
                         /\ ~startswith(Chars(crate), <<"#">>)
                      THEN CargoCrates(lines, i + 1, still, Append(acc, crate))
                      ELSE CargoCrates(lines, i + 1, still, acc)

RustUsesOf(f) == IF f.open # "ok" THEN {} ELSE Range(Field(f, "uses", <<>>))

RustFiles(files) ==
    LET IsRs(f) == endswith(Chars(f.name), Chars(".rs"))
    IN  SelectSeq(walk(files, RUST_IGNORED_DIRS, TRUE), IsRs)

RustOrphan(crate) ==
    [package |-> crate, source |-> "Cargo.toml", ecosystem |-> "rust",
     category |-> "dependencies", confidence |-> 65, reason |-> "crate_not_used"]

find_orphaned_rust_deps(files) ==
    IF ~RootExists(files, "Cargo.toml") THEN Returned(<<>>)
    ELSE LET f == TheRootFile(files, "Cargo.toml")
             rs == RustFiles(files)
             all_uses == UNION {RustUsesOf(rs[i]) : i \in 1..Len(rs)}
             declared == Dedup(CargoCrates(Field(f, "lines", <<>>), 1, FALSE, <<>>))
             Unused(crate) ==
                 /\ Join(replace(Chars(crate), <<"-">>, <<"_">>)) \notin all_uses
                 /\ crate \notin all_uses
         IN  IF f.open # "ok" THEN Returned(<<>>)
             ELSE IF ~Field(f, "decodable", TRUE) THEN Raised("UnicodeDecodeError")
             ELSE Returned([i \in 1..Len(SelectSeq(declared, Unused)) |->
                               RustOrphan(SelectSeq(declared, Unused)[i])])

ECOSYSTEM_MARKERS ==
    [python |-> <<"requirements.txt", "pyproject.toml", "setup.py", "Pipfile">>,
     javascript |-> <<"package.json">>,
     go |-> <<"go.mod">>,
     rust |-> <<"Cargo.toml">>]

\* found_markers of one marker: the marker itself when it exists at the root, then
\* the relative path of every walked file of that name not yet in the list
MarkerPaths(files, marker) ==
    LET Named(f) == f.name = marker
        seen == SelectSeq(walk(files, IGNORED_DIRS, TRUE), Named)
    IN  Dedup((IF RootExists(files, marker) THEN <<marker>> ELSE <<>>)
              \o [i \in 1..Len(seen) |-> rel_path(seen[i])])

\* found_markers of one ecosystem
found_markers(files, e) ==
    Dedup(Flatten([i \in 1..Len(ECOSYSTEM_MARKERS[e]) |->
                      MarkerPaths(files, ECOSYSTEM_MARKERS[e][i])]))

\* detect_ecosystems: the dict has a key for each ecosystem with markers found
detect_ecosystems(files) ==
    [e \in {x \in DOMAIN ECOSYSTEM_MARKERS : found_markers(files, x) # <<>>} |->
        found_markers(files, e)]

RECURSIVE ExtendAll(_, _, _)
\* all_orphans.extend(...) detector after detector; the first exception ends it
ExtendAll(results, i, acc) ==
    IF i > Len(results) THEN Returned(acc)
    ELSE IF results[i].raised # "none"
         THEN [raised |-> results[i].raised, items |-> <<>>,
               detector |-> <<"find_orphaned_python_deps", "find_orphaned_js_deps",
                              "find_orphaned_go_deps", "find_orphaned_rust_deps">>[i]]
    ELSE ExtendAll(results, i + 1, acc \o results[i].items)

find_all_orphaned_deps(files) ==
    LET ecosystems == detect_ecosystems(files)
        Run(e, result) == IF e \in DOMAIN ecosystems THEN result ELSE Returned(<<>>)
    IN  ExtendAll(<<Run("python", find_orphaned_python_deps(files)),
                    Run("javascript", find_orphaned_js_deps(files)),
                    Run("go", find_orphaned_go_deps(files)),
                    Run("rust", find_orphaned_rust_deps(files))>>, 1, <<>>)

----------------------------------------------------------------------------
(* Category 3: documentation drift.                                        *)

DOC_IGNORED_DIRS == {"node_modules", "venv", "__pycache__", "dist", "build"}

RECURSIVE NormParts(_, _)
\* os.path.normpath over path components: "" and "." vanish, ".." takes the last
\* component away; a ".." that leaves the repository stays in the result
NormParts(parts, acc) ==
    IF parts = <<>> THEN acc
    ELSE IF parts[1] \in {"", "."} THEN NormParts(Tail(parts), acc)
    ELSE IF parts[1] = ".." /\ acc # <<>> /\ acc[Len(acc)] # ".."
         THEN NormParts(Tail(parts), SubSeq(acc, 1, Len(acc) - 1))
         ELSE NormParts(Tail(parts), Append(acc, parts[1]))

\* os.path.normpath(os.path.join(doc_dir, link_path)), relative to the repository
ResolveLink(doc, link_path) ==
    LET parts == split(Chars(link_path), "/")
    IN  NormParts(doc.dir \o [i \in 1..Len(parts) |-> Join(parts[i])], <<>>)

\* os.path.exists: a file or a directory of the tree (whatever the walks prune), the
\* repository being all there is on disk
path_exists(files, parts) ==
    \/ parts = <<>>
    \/ \E i \in 1..Len(files) :
          LET whole == Append(files[i].dir, files[i].name)
          IN  Len(parts) <= Len(whole) /\ SubSeq(whole, 1, Len(parts)) = parts

\* existing_files: the relative path and the base name of every file of the first walk
existing_files(files) ==
    LET seen == walk(files, IGNORED_DIRS, TRUE)
    IN  {rel_path(seen[i]) : i \in 1..Len(seen)} \cup {seen[i].name : i \in 1..Len(seen)}

IsExternalLink(link_path) ==
    \E scheme \in {"http://", "https://", "mailto:"} :
        startswith(Chars(link_path), Chars(scheme))

\* broken_refs of one document: the markdown links the link regex finds (content
\* field links, [text, path] each, the path without a leading ./ and without the
\* #fragment), then the fenced-code file names (code_refs)
broken_refs(files, doc) ==
    LET links == Field(doc, "links", <<>>)
        code_refs == Field(doc, "code_refs", <<>>)
        existing == existing_files(files)
        rel_to_repo(l) ==
            IF ResolveLink(doc, l.path) = <<>> THEN "."
            ELSE JoinWith(ResolveLink(doc, l.path), "/")
        BrokenLink(l) ==
            /\ ~IsExternalLink(l.path)
            /\ ~path_exists(files, ResolveLink(doc, l.path))
            /\ rel_to_repo(l) \notin existing
        BrokenCode(ref) == ref \notin existing
        bl == SelectSeq(links, BrokenLink)
        bc == SelectSeq(code_refs, BrokenCode)
    IN  [i \in 1..Len(bl) |->
            [type |-> "broken_link", reference |-> bl[i].path, link_text |-> bl[i].text]]
        \o [i \in 1..Len(bc) |-> [type |-> "code_block_file", reference |-> bc[i]]]

\* min(40 + len(broken_refs) * 10, 80) without the min
drift_confidence_uncapped(n) == 40 + n * 10

drift_confidence(n) == Min2(40 + n * 10, 80)

IsDocFile(f) ==
    /\ EndsWithAny(f.name, {".md", ".rst", ".txt"})
    /\ ~startswith(Chars(f.name), <<".">>)

\* DriftFinding with broken_refs in place of broken_refs[:5]
DriftFinding_uncut(files, doc) ==
    LET refs == broken_refs(files, doc)
    IN  IF doc.open # "ok" \/ refs = <<>> \/ doc.stat # "ok" THEN <<>>
        ELSE <<[path |-> rel_path(doc),
                broken_references |-> refs,
                broken_count |-> Len(refs),
                category |-> "documentation",
                confidence |-> drift_confidence(Len(refs)),
                reason |-> "documentation_drift"]>>

\* The finding of one document: none when it cannot be opened, has no broken
\* reference, or os.stat raises OSError
DriftFinding(files, doc) ==
    LET refs == broken_refs(files, doc)
    IN  IF doc.open # "ok" \/ refs = <<>> \/ doc.stat # "ok" THEN <<>>
        ELSE <<[path |-> rel_path(doc),
                broken_references |-> Take(refs, 5),
                broken_count |-> Len(refs),
                category |-> "documentation",
                confidence |-> drift_confidence(Len(refs)),
                reason |-> "documentation_drift"]>>

find_documentation_drift(files) ==
    LET docs == SelectSeq(walk(files, DOC_IGNORED_DIRS, TRUE), IsDocFile)
    IN  Flatten([i \in 1..Len(docs) |-> DriftFinding(files, docs[i])])

----------------------------------------------------------------------------
(* Category 4: orphaned configuration.                                     *)

ConfigPattern(re, tool, dep_files) == [re |-> re, tool |-> tool, dep_files |-> dep_files]

config_patterns == <<
    ConfigPattern(Cat(<<Lit(".babelrc"), Eol>>), "babel", <<"package.json">>),
    ConfigPattern(Cat(<<Lit("webpack.config.js"), Eol>>), "webpack", <<"package.json">>),
    ConfigPattern(Cat(<<Lit("rollup.config.js"), Eol>>), "rollup", <<"package.json">>),
    ConfigPattern(Cat(<<Lit("jest.config."), Alt(<<Lit("js"), Lit("ts"), Lit("json")>>), Eol>>),
                  "jest", <<"package.json">>),
    ConfigPattern(Cat(<<Lit(".eslintrc"), AnyStr, Eol>>), "eslint", <<"package.json">>),
    ConfigPattern(Cat(<<Lit(".prettierrc"), AnyStr, Eol>>), "prettier", <<"package.json">>),
    ConfigPattern(Cat(<<Lit("tsconfig"), AnyStr, Lit(".json"), Eol>>), "typescript",
                  <<"package.json">>),
    ConfigPattern(Cat(<<Lit("setup.cfg"), Eol>>), "setuptools", <<"setup.py", "pyproject.toml">>),
    ConfigPattern(Cat(<<Lit(".pylintrc"), Eol>>), "pylint",
                  <<"requirements.txt", "pyproject.toml">>),
    ConfigPattern(Cat(<<Lit(".flake8"), Eol>>), "flake8",
                  <<"requirements.txt", "pyproject.toml">>),
    ConfigPattern(Cat(<<Lit("mypy.ini"), Eol>>), "mypy",
                  <<"requirements.txt", "pyproject.toml">>),
    ConfigPattern(Cat(<<Lit(".travis.yml"), Eol>>), "travis", <<>>),
    ConfigPattern(Cat(<<Lit(".circleci/config.yml"), Eol>>), "circleci", <<>>),
    ConfigPattern(Cat(<<Lit("Jenkinsfile"), Eol>>), "jenkins", <<>>)
>>

\* installed_packages: the dependencies and devDependencies of the root package.json;
\* an open() failure or a JSONDecodeError leaves it empty, anything else escapes
installed_packages(files) ==
    IF ~RootExists(files, "package.json") THEN Returned(<<>>)
    ELSE LET f == TheRootFile(files, "package.json")
         IN  IF LoadJson(f) \in {"OSError", "JSONDecodeError"} THEN Returned(<<>>)
             ELSE IF LoadJson(f) # "ok" THEN Raised(LoadJson(f))
             ELSE CollectDeps(f, <<"dependencies", "devDependencies">>, 1, <<>>)

\* ConfigFinding without the test that dep_files is not empty
ConfigFinding_any_dep_files(files, installed, f, entry) ==
    LET tool_installed == entry.tool \in installed
        has_dep_files ==
            \E i \in 1..Len(entry.dep_files) : path_exists(files, <<entry.dep_files[i]>>)
    IN  IF /\ re_match(entry.re, Chars(f.name), FALSE)
           /\ ~tool_installed
           /\ ~has_dep_files
           /\ f.stat = "ok"
        THEN <<[path |-> rel_path(f),
                tool |-> entry.tool,
                age_days |-> calculate_age_days(f),
                category |-> "configuration",
                confidence |-> 55 + (IF calculate_age_days(f) > 90 THEN 15 ELSE 0),
                reason |-> "orphaned_config"]>>
        ELSE <<>>

\* What one (file, table entry) pair appends to orphans
ConfigFinding(files, installed, f, entry) ==
    LET tool_installed == entry.tool \in installed
        has_dep_files ==
            \E i \in 1..Len(entry.dep_files) : path_exists(files, <<entry.dep_files[i]>>)
    IN  IF /\ re_match(entry.re, Chars(f.name), FALSE)
           /\ ~tool_installed
           /\ ~has_dep_files
           /\ entry.dep_files # <<>>
           /\ f.stat = "ok"
        THEN <<[path |-> rel_path(f),
                tool |-> entry.tool,
                age_days |-> calculate_age_days(f),
                category |-> "configuration",
                confidence |-> 55 + (IF calculate_age_days(f) > 90 THEN 15 ELSE 0),
                reason |-> "orphaned_config"]>>
        ELSE <<>>

find_orphaned_configs(files) ==
    LET pkgs == installed_packages(files)
        seen == walk(files, IGNORED_DIRS, TRUE)
    IN  IF pkgs.raised # "none" THEN pkgs
        ELSE Returned(Flatten([i \in 1..Len(seen) |->
                 Flatten([k \in 1..Len(config_patterns) |->
                     ConfigFinding(files, Range(pkgs.items), seen[i], config_patterns[k])])]))

----------------------------------------------------------------------------
(* Category 5: legacy code.                                                *)

LEGACY_EXTENSIONS == {".py", ".js", ".ts", ".jsx", ".tsx", ".go", ".rs", ".java"}

\* deprecation_markers with matches in place of matches[:3]
deprecation_markers_all(f) ==
    LET found == Field(f, "marker_matches", <<>>)
    IN  Flatten([i \in 1..Len(found) |-> found[i]])

\* deprecation_markers of a file: content field marker_matches holds, pattern after
\* pattern of comment_deprecation_patterns, what re.findall returns; at most three
\* of each are kept
deprecation_markers(f) ==
    LET found == Field(f, "marker_matches", <<>>)
    IN  Flatten([i \in 1..Len(found) |-> Take(found[i], 3)])

LegacyFinding(f) ==
    LET markers == deprecation_markers(f)
    IN  IF f.open # "ok" \/ markers = <<>> \/ f.stat # "ok" THEN <<>>
        ELSE <<[path |-> rel_path(f),
                \* list(set(deprecation_markers))[:5], in the order of first appearance
                markers |-> Take(Dedup(markers), 5),
                marker_count |-> Len(markers),
                age_days |-> calculate_age_days(f),
                category |-> "legacy",
                confidence |-> 40,
                reason |-> "contains_deprecation_markers"]>>

find_legacy_code(files) ==
    LET IsCode(f) == EndsWithAny(f.name, LEGACY_EXTENSIONS)
        code == SelectSeq(walk(files, IGNORED_DIRS, TRUE), IsCode)
        legacy_items == Flatten([i \in 1..Len(code) |-> LegacyFinding(code[i])])
    IN  Take(sorted_reverse(legacy_items, Column(legacy_items, "marker_count")), 15)

----------------------------------------------------------------------------
(* Context-heavy files, monorepo detection, file count.                    *)

MAX_RECOMMENDED_LINES == 500
MAX_RECOMMENDED_TOKENS == 4000
CONTEXT_HEAVY_EXTENSIONS == {".md", ".txt", ".rst", ".json", ".yaml", ".yml"}

\* content fields line_count (content.count("\n") + 1) and tokens (len(content) // 4)
HeavyFinding(f) ==
    LET lines == Field(f, "line_count", 1)
        tokens == Field(f, "tokens", 0)
    IN  IF /\ f.open = "ok"
           /\ (lines > MAX_RECOMMENDED_LINES \/ tokens > MAX_RECOMMENDED_TOKENS)
        THEN <<[path |-> rel_path(f),
                lines |-> lines,
                estimated_tokens |-> tokens,
                exceeds_lines |-> lines > MAX_RECOMMENDED_LINES,
                exceeds_tokens |-> tokens > MAX_RECOMMENDED_TOKENS,
                recommendation |-> IF lines > 1000 THEN "consider_splitting" ELSE "monitor",
                category |-> "context_heavy",
                confidence |-> 50]>>
        ELSE <<>>

find_context_heavy_files(files) ==
    LET IsHeavyType(f) == Join(lower(path_suffix(Chars(f.name)))) \in CONTEXT_HEAVY_EXTENSIONS
        seen == SelectSeq(walk(files, IGNORED_DIRS, TRUE), IsHeavyType)
        heavy_files == Flatten([i \in 1..Len(seen) |-> HeavyFinding(seen[i])])
    IN  Take(sorted_reverse(heavy_files, Column(heavy_files, "estimated_tokens")), 15)

\* monorepo_markers, in the order the dict is iterated
monorepo_markers == <<
    [tool |-> "lerna", marker |-> "lerna.json"],
    [tool |-> "pnpm", marker |-> "pnpm-workspace.yaml"],
    [tool |-> "nx", marker |-> "nx.json"],
    [tool |-> "turborepo", marker |-> "turbo.json"],
    [tool |-> "yarn_workspaces", marker |-> "package.json"],
    [tool |-> "rush", marker |-> "rush.json"]
>>

\* The yarn_workspaces branch: what it leaves in detected and packages, or the
\* exception that passes its except (IOError, json.JSONDecodeError). The content
\* member workspaces has a type ("list", "dict", "string", "number", "bool", "null")
\* and, in dirs, the directories its glob patterns match.
YarnWorkspaces(f, detected) ==
    LET unchanged == [raised |-> "none", detected |-> detected, packages |-> <<>>]
        escaped(e) == [raised |-> e, detected |-> detected, packages |-> <<>>]
        ws == JsonMembers(f)["workspaces"]
    IN  IF LoadJson(f) \in {"OSError", "JSONDecodeError"} THEN unchanged
        ELSE IF LoadJson(f) # "ok" THEN escaped(LoadJson(f))
        ELSE IF HasMember(f, "workspaces") = "TypeError" THEN escaped("TypeError")
        ELSE IF HasMember(f, "workspaces") = "no" THEN unchanged
        ELSE IF ws.type \in {"number", "null", "bool"}
             THEN [raised |-> "TypeError", detected |-> <<"yarn_workspaces">>, packages |-> <<>>]
             ELSE [raised |-> "none", detected |-> <<"yarn_workspaces">>,
                   packages |-> IF "dirs" \in DOMAIN ws THEN ws.dirs ELSE <<>>]

RECURSIVE MonorepoMarkers(_, _, _, _)
\* The loop over monorepo_markers: detected (<<>> for None) and packages
MonorepoMarkers(files, i, detected, packages) ==
    IF i > Len(monorepo_markers)
    THEN [raised |-> "none", detected |-> detected, packages |-> packages]
    ELSE IF ~RootExists(files, monorepo_markers[i].marker)
         THEN MonorepoMarkers(files, i + 1, detected, packages)
         ELSE IF monorepo_markers[i].tool # "yarn_workspaces"
              THEN MonorepoMarkers(files, i + 1, <<monorepo_markers[i].tool>>, packages)
              ELSE LET y == YarnWorkspaces(TheRootFile(files, "package.json"), detected)
                   IN  IF y.raised # "none" THEN y
                       ELSE MonorepoMarkers(files, i + 1, y.detected, packages \o y.packages)

MONOREPO_IGNORED_DIRS == {"node_modules", ".git"}

\* the number of directories whose files include package.json
package_json_count(files) ==
    LET IsPkg(f) == f.name = "package.json"
    IN  Len(SelectSeq(walk(files, MONOREPO_IGNORED_DIRS, FALSE), IsPkg))

detect_monorepo(files) ==
    LET m == MonorepoMarkers(files, 1, <<>>, <<>>)
    IN  IF m.raised # "none" THEN Raised(m.raised)
        ELSE Returned(<<[is_monorepo |-> m.detected # <<>> \/ package_json_count(files) > 3,
                         tool |-> m.detected,
                         packages |-> Take(m.packages, 20),
                         package_json_count |-> package_json_count(files)]>>)

COUNT_IGNORED_DIRS == IGNORED_DIRS \cup {".git"}

count_files(files) == Len(walk(files, COUNT_IGNORED_DIRS, TRUE))

----------------------------------------------------------------------------
(* Git archaeology. A git command's result is <<>> for None, else <<stdout>>. *)

\* run_git_command: None when the executable is missing (FileNotFoundError), the
\* call times out (TimeoutExpired) or git exits non-zero, else the stripped stdout
run_git_command(git, timed_out, exit_ok, stdout) ==
    IF ~git.installed \/ timed_out \/ ~exit_ok THEN <<>> ELSE <<stdout>>

\* git rev-parse --show-toplevel; result if result else path
get_repo_root(git, timed_out, path) ==
    LET result == run_git_command(git, timed_out, git.under_vc, git.toplevel)
    IN  IF result # <<>> /\ result[1] # "" THEN result[1] ELSE path

\* git rev-parse --git-dir, is not None
is_git_repo(git, timed_out) ==
    run_git_command(git, timed_out, git.under_vc, ".git") # <<>>

AI_COMMIT_PATTERNS == <<
    Pat("^(feat|fix|chore|docs|style|refactor|test|build|ci)(\\(.+\\))?:",
        Cat(<<Bol, Alt(<<Lit("feat"), Lit("fix"), Lit("chore"), Lit("docs"), Lit("style"),
                         Lit("refactor"), Lit("test"), Lit("build"), Lit("ci")>>),
              Opt(Cat(<<Lit("("), Plus(Dot), Lit(")")>>)), Lit(":")>>)),
    Pat("update(d)?\\s+(readme|documentation|docs)",
        Cat(<<Lit("update"), Opt(Lit("d")), Plus(Space),
              Alt(<<Lit("readme"), Lit("documentation"), Lit("docs")>>)>>)),
    Pat("add(ed)?\\s+(new\\s+)?(feature|functionality|support)",
        Cat(<<Lit("add"), Opt(Lit("ed")), Plus(Space), Opt(Cat(<<Lit("new"), Plus(Space)>>)),
              Alt(<<Lit("feature"), Lit("functionality"), Lit("support")>>)>>)),
    Pat("implement(ed)?\\s+", Cat(<<Lit("implement"), Opt(Lit("ed")), Plus(Space)>>)),
    Pat("refactor(ed)?\\s+", Cat(<<Lit("refactor"), Opt(Lit("ed")), Plus(Space)>>)),
    Pat("clean(ed)?\\s*up", Cat(<<Lit("clean"), Opt(Lit("ed")), Star(Space), Lit("up")>>)),
    Pat("fix(ed)?\\s+(bug|issue|typo|error)",
        Cat(<<Lit("fix"), Opt(Lit("ed")), Plus(Space),
              Alt(<<Lit("bug"), Lit("issue"), Lit("typo"), Lit("error")>>)>>)),
    Pat("initial\\s+commit", Cat(<<Lit("initial"), Plus(Space), Lit("commit")>>)),
    Pat("^wip\\b", Cat(<<Bol, Lit("wip"), WordB>>)),
    Pat("minor\\s+(changes|updates|fixes)",
        Cat(<<Lit("minor"), Plus(Space),
              Alt(<<Lit("changes"), Lit("updates"), Lit("fixes")>>)>>))
>>

AI_COMMIT_SIGNATURES == <<
    "Generated with Claude Code", "Co-Authored-By: Claude", "Co-Authored-By: GitHub Copilot",
    "Generated with Copilot", "Co-Authored-By: OpenAI Codex", "Generated with Codex",
    "Co-Authored-By: Cursor", "Generated with Cursor"
>>

RECURSIVE split_max(_, _, _)
\* str.split(sep, maxsplit) for a one-character separator
split_max(cs, sep, maxsplit) ==
    IF maxsplit > 0 /\ \E i \in 1..Len(cs) : cs[i] = sep
    THEN LET i == CHOOSE i \in 1..Len(cs) : cs[i] = sep /\ \A j \in 1..(i - 1) : cs[j] # sep
         IN  <<SubSeq(cs, 1, i - 1)>> \o split_max(SubSeq(cs, i + 1, Len(cs)), sep, maxsplit - 1)
    ELSE <<cs>>

\* One piece of log_output.split("<<<END>>>"): <<>> when it is skipped, else the commit
ParseCommit(entry) ==
    LET parts == split_max(strip(Chars(entry)), "|", 4)
    IN  IF strip(Chars(entry)) = <<>> \/ Len(parts) < 4 THEN <<>>
        ELSE <<[hash |-> Join(parts[1]), subject |-> Join(parts[2]), date |-> Join(parts[3]),
                author |-> Join(parts[4]),
                body |-> IF Len(parts) > 4 THEN Join(parts[5]) ELSE ""]>>

is_ai_signed(c) ==
    \E k \in 1..Len(AI_COMMIT_SIGNATURES) :
        contains(Chars(c.subject) \o <<"\n">> \o Chars(c.body), Chars(AI_COMMIT_SIGNATURES[k]))

\* matched_patterns of a subject, in list order
matched_patterns(subject) ==
    LET Hit(pat) == re_search(pat.re, Chars(subject), TRUE)
        hits == SelectSeq(AI_COMMIT_PATTERNS, Hit)
    IN  [i \in 1..Len(hits) |-> hits[i].src]

CommitHead(c) ==
    [hash |-> Join(Take(Chars(c.hash), 8)), message |-> Join(Take(Chars(c.subject), 100)),
     date |-> Join(Take(Chars(c.date), 10)), author |-> c.author]

\* analyze_commits after is_git_repo and git log have answered; log_output is <<>>
\* for None, else <<pieces>>, the pieces of the output between the <<<END>>> marks
\* (none for an empty output)
analyze_commits(is_repo, log_output) ==
    IF ~is_repo
    THEN [has_git |-> FALSE, ai_commits |-> <<>>, ai_signed_commits |-> <<>>]
    ELSE IF log_output = <<>> \/ log_output[1] = <<>>
    THEN [has_git |-> TRUE, ai_commits |-> <<>>, ai_signed_commits |-> <<>>, total_commits |-> 0]
    ELSE LET commits == Flatten([i \in 1..Len(log_output[1]) |-> ParseCommit(log_output[1][i])])
             Signed(c) == is_ai_signed(c)
             Pattern(c) == ~is_ai_signed(c) /\ Len(matched_patterns(c.subject)) >= 2
             signed == SelectSeq(commits, Signed)
             pattern == SelectSeq(commits, Pattern)
             ai_signed_commits ==
                 [i \in 1..Len(signed) |->
                     [hash |-> CommitHead(signed[i]).hash, message |-> CommitHead(signed[i]).message,
                      date |-> CommitHead(signed[i]).date, author |-> signed[i].author,
                      is_ai_signed |-> TRUE]]
             ai_commits ==
                 [i \in 1..Len(pattern) |->
                     [hash |-> CommitHead(pattern[i]).hash, message |-> CommitHead(pattern[i]).message,
                      date |-> CommitHead(pattern[i]).date, author |-> pattern[i].author,
                      ai_score |-> Len(matched_patterns(pattern[i].subject)),
                      patterns |-> Take(matched_patterns(pattern[i].subject), 3)]]
         IN  [has_git |-> TRUE,
              total_commits |-> Len(commits),
              ai_signed_commits |-> Take(ai_signed_commits, 10),
              ai_signed_commit_count |-> Len(ai_signed_commits),
              ai_commits |-> Take(sorted_reverse(ai_commits, Column(ai_commits, "ai_score")), 10),
              ai_commit_count |-> Len(ai_commits),
              \* len(ai_commits) / max(total_commits, 1), as a fraction
              ai_commit_ratio |-> <<Len(ai_commits), Max2(Len(commits), 1)>>]

stale_patterns == <<
    Pat("^claude-", Cat(<<Bol, Lit("claude-")>>)),
    Pat("^cursor-", Cat(<<Bol, Lit("cursor-")>>)),
    Pat("^copilot-", Cat(<<Bol, Lit("copilot-")>>)),
    Pat("^codex-", Cat(<<Bol, Lit("codex-")>>)),
    Pat("^attempt-", Cat(<<Bol, Lit("attempt-")>>)),
    Pat("^test-", Cat(<<Bol, Lit("test-")>>)),
    Pat("^wip-", Cat(<<Bol, Lit("wip-")>>)),
    Pat("^experimental-", Cat(<<Bol, Lit("experimental-")>>)),
    Pat("^try-", Cat(<<Bol, Lit("try-")>>)),
    Pat("^debug-", Cat(<<Bol, Lit("debug-")>>)),
    Pat("^feature/wip-", Cat(<<Bol, Lit("feature/wip-")>>)),
    Pat("^hotfix-\\d{8}",
        Cat(<<Bol, Lit("hotfix-"), Digit, Digit, Digit, Digit, Digit, Digit, Digit, Digit>>))
>>

RECURSIVE lstrip_chars(_, _)
\* str.lstrip(chars)
lstrip_chars(cs, chars) ==
    IF cs # <<>> /\ cs[1] \in chars THEN lstrip_chars(Tail(cs), chars) ELSE cs

\* branch.strip().lstrip("* ").replace("remotes/origin/", "")
BranchName(line) ==
    Join(replace(lstrip_chars(strip(Chars(line)), {"*", " "}), Chars("remotes/origin/"), <<>>))

StaleFinding(line) ==
    LET k == FirstMatch(stale_patterns, BranchName(line), TRUE)
    IN  IF k = 0 THEN <<>>
        ELSE <<[name |-> BranchName(line), pattern |-> stale_patterns[k].src,
                reason |-> "matches_stale_pattern"]>>

\* find_stale_branches after is_git_repo and git branch -a have answered;
\* branches_output is <<>> for None, else <<lines>> (no line for an empty output)
find_stale_branches(is_repo, branches_output) ==
    IF ~is_repo \/ branches_output = <<>> \/ branches_output[1] = <<>> THEN <<>>
    ELSE Take(Flatten([i \in 1..Len(branches_output[1]) |-> StaleFinding(branches_output[1][i])]),
              20)

----------------------------------------------------------------------------
(* The scorer alone: every combination of its arguments.                   *)

ScoreArgs ==
    [matches_pattern : BOOLEAN, is_ai_artifact : BOOLEAN, is_duplicate : BOOLEAN,
     is_imported : BOOLEAN, age_days : AgeRange]

InitScore ==
    /\ call \in [fn : {"calculate_confidence"}, arg : ScoreArgs, ret : {<<>>}]
    /\ NoRun

CallCalculateConfidence ==
    /\ call.fn = "calculate_confidence"
    /\ call.ret = <<>>
    /\ call' = [call EXCEPT !.ret =
                  <<calculate_confidence(call.arg.matches_pattern, call.arg.is_ai_artifact,
                                         call.arg.is_duplicate, call.arg.is_imported,
                                         call.arg.age_days)>>]
    /\ UNCHANGED run

NextScore == CallCalculateConfidence

SpecScore == InitScore /\ [][NextScore]_vars

----------------------------------------------------------------------------
(* The duplicate grouper alone.                                            *)

NoContent == [kind |-> "other"]

File(dir, name, age, content) ==
    [dir |-> dir, name |-> name, age |-> age, stat |-> "ok", open |-> "ok",
     content |-> content]

PlainFile(dir, name) == File(dir, name, 100, NoContent)

DupUniverse == {
    PlainFile(<<>>, "a.py"), PlainFile(<<>>, "a_old.py"), PlainFile(<<>>, "a_copy.py"),
    PlainFile(<<>>, "A.PY"), PlainFile(<<>>, "a.txt"), PlainFile(<<>>, "b.py"),
    PlainFile(<<>>, "the_old_man.py"), PlainFile(<<>>, "the_man.py"),
    PlainFile(<<>>, "copy_of_report.py"), PlainFile(<<>>, "report.py"),
    PlainFile(<<>>, "a_o_oldld.py"),
    PlainFile(<<"docs">>, "a_old.py"), PlainFile(<<"docs">>, "b (1).py"),
    PlainFile(<<"node_modules">>, "b_old.py"), PlainFile(<<".cache">>, "b_bak.py") }

\* os.walk is top-down: the files of the root come before those of its directories.
TopDown(files) ==
    \A i, j \in 1..Len(files) : i < j /\ files[j].dir = <<>> => files[i].dir = <<>>

RECURSIVE WalksUpTo(_, _)
\* the duplicate-free sequences of at most n files of U
WalksUpTo(U, n) ==
    IF n = 0 THEN {<<>>}
    ELSE LET shorter == WalksUpTo(U, n - 1)
         IN  shorter \cup {Append(w, f) : w \in shorter, f \in U} 

SmallDupTrees ==
    {w \in WalksUpTo(DupUniverse, MaxDupFiles) :
        /\ \A i, j \in 1..Len(w) : i # j => w[i] # w[j]
        /\ TopDown(w)}

\* The members of bulk key i: k07.py, k07_old.py, k07_copy.py
BulkName(i, m) ==
    "k" \o DigitChars[(i \div 10) + 1] \o DigitChars[(i % 10) + 1]
        \o (IF m = 1 THEN "" ELSE IF m = 2 THEN "_old" ELSE "_copy") \o ".py"

BulkCycles == {<<1>>, <<2>>, <<2, 3>>, <<3, 2>>, <<1, 2, 3>>, <<3, 1, 2>>}

\* n keys, key i with cycle[i] members, walked by ascending or descending key
BulkTree(n, cycle, descending) ==
    LET KeyAt(pos) == IF descending THEN n + 1 - pos ELSE pos
        Members(pos) ==
            [m \in 1..cycle[((KeyAt(pos) - 1) % Len(cycle)) + 1] |->
                PlainFile(<<>>, BulkName(KeyAt(pos), m))]
    IN  Flatten([pos \in 1..n |-> Members(pos)])

BulkDupTrees ==
    {BulkTree(n, cycle, d) : n \in 0..MaxBulkKeys, cycle \in BulkCycles, d \in BOOLEAN}

InitDup ==
    /\ call \in [fn : {"find_duplicates"}, arg : SmallDupTrees \cup BulkDupTrees, ret : {<<>>}]
    /\ NoRun

\* find_duplicates(repo_path); groups is the list it holds before sorting and cutting.
CallFindDuplicates ==
    /\ call.fn = "find_duplicates"
    /\ call.ret = <<>>
    /\ call' = [call EXCEPT !.ret = <<[groups |-> DuplicateGroups(call.arg),
                                       result |-> find_duplicates(call.arg)]>>]
    /\ UNCHANGED run

NextDup == CallFindDuplicates

SpecDup == InitDup /\ [][NextDup]_vars

----------------------------------------------------------------------------
(* The requirements reconciler alone.                                      *)

ReqLineUniverse ==
    {"my-pkg", "my_pkg", "My-Pkg==1.0", "requests>=2.0", "# my-pkg", "-r base.txt", "",
     "numpy [extra] ", "  my_pkg ~= 2"}

\* Import sets of the reconciler; the Python extractors yield identifiers, the
\* comparison is written for any name.
ImportUniverse == {"my_pkg", "my-pkg", "MY_PKG", "requests", "os", "my"}

RECURSIVE SeqsUpTo(_, _)
SeqsUpTo(S, n) ==
    IF n = 0 THEN {<<>>}
    ELSE LET shorter == SeqsUpTo(S, n - 1)
         IN  shorter \cup {Append(w, x) : w \in shorter, x \in S}

RECURSIVE SubsetsUpTo(_, _)
SubsetsUpTo(S, n) ==
    IF n = 0 THEN {{}}
    ELSE LET smaller == SubsetsUpTo(S, n - 1)
         IN  smaller \cup {s \cup {x} : s \in smaller, x \in S}

InitPyDeps ==
    /\ call \in [fn : {"reconcile_requirements"},
                 arg : [lines : SeqsUpTo(ReqLineUniverse, MaxReqLines),
                        all_imports : SubsetsUpTo(ImportUniverse, MaxImports)],
                 ret : {<<>>}]
    /\ NoRun

\* The loop of find_orphaned_python_deps over the lines of requirements.txt
CallReconcileRequirements ==
    /\ call.fn = "reconcile_requirements"
    /\ call.ret = <<>>
    /\ call' = [call EXCEPT !.ret =
                  <<ReconcileRequirements("requirements.txt", call.arg.lines,
                                          call.arg.all_imports)>>]
    /\ UNCHANGED run

NextPyDeps == CallReconcileRequirements

SpecPyDeps == InitPyDeps /\ [][NextPyDeps]_vars

----------------------------------------------------------------------------
(* analyze_repo: the trees and the git worlds it is run on.                *)

Unreadable(f) == [f EXCEPT !.open = "oserror"]
Unstatable(f) == [f EXCEPT !.stat = "oserror"]

Python(imports) == [kind |-> "python", parse |-> "ok", imports |-> imports]
Docs(links, code_refs) == [kind |-> "doc", links |-> links, code_refs |-> code_refs]
\* Group 2 of the link regex on the text between the parentheses of [text](target):
\* a leading ./ is dropped when something other than a #fragment follows it, and
\* the path ends before the first #
md_link_path(target) ==
    LET cs == Chars(target)
        UpToHash(s) == SplitFirst(s, {"#"})
        rest == SubSeq(cs, 3, Len(cs))
    IN  IF startswith(cs, <<".", "/">>) /\ UpToHash(rest) # <<>>
        THEN Join(UpToHash(rest)) ELSE Join(UpToHash(cs))

Link(text, target) == [text |-> text, path |-> md_link_path(target)]
NotText(kind) == [kind |-> kind, decodable |-> FALSE]
PackageJson(members) == [kind |-> "json", top |-> "object", members |-> members]
JsonObject(keys) == [type |-> "object", keys |-> keys]

\* MaxBrokenRefs file names no file of the universe bears
ManyRefs == [i \in 1..MaxBrokenRefs |-> "gone" \o DigitChars[(i % 10) + 1] \o ".py"]

\* Markers of the ten comment_deprecation_patterns found in a file
Markers(deprecated, todo) ==
    <<deprecated, <<>>, <<>>, <<>>, <<>>, <<>>, <<>>, <<>>, todo, <<>>>>

\* The files a tree is made of: for each path, in the order os.walk yields them, the
\* files that can be at that path.
Slots == <<
    {File(<<>>, "a_old.py", age, NoContent) : age \in {0 - MaxFutureDays, 5, 95, MaxAgeDays}}
        \cup {Unstatable(File(<<>>, "a_old.py", 95, NoContent))},
    {File(<<>>, "a.py", 20, Python(<<"my_pkg.sub", "os", "">>)),
     File(<<>>, "a.py", 20, [kind |-> "python", parse |-> "SyntaxError",
                              regex_imports |-> <<"my", "requests">>]),
     File(<<>>, "a.py", 20, [kind |-> "python", parse |-> "RecursionError"]),
     Unreadable(File(<<>>, "a.py", 20, Python(<<"requests">>))),
     File(<<>>, "a.py", 300,
          [kind |-> "python", parse |-> "ok", imports |-> <<"requests">>,
           marker_matches |-> Markers(<<"@deprecated", "@ deprecated", "@deprecated",
                                        "@Deprecated">>, <<"TODO: remove">>)])},
    {File(<<>>, "PLAN.md", 40, NoContent),
     File(<<>>, "PLAN.md", MaxAgeDays, Docs(<<>>, ManyRefs))},
    {File(<<>>, "README.md", 10,
          Docs(<<Link("guide", "docs/guide.md"), Link("gone", "missing.md"),
                 Link("site", "https://example.com/x.md")>>, <<>>)),
     File(<<>>, "README.md", 10,
          Docs(<<Link("gone", "missing.md")>>, <<"a.py", "b.py", "c.py", "d.py">>)),
     File(<<>>, "README.md", 10,
          [kind |-> "doc", links |-> <<>>, code_refs |-> <<>>, line_count |-> 600, tokens |-> 3000]),
     Unstatable(File(<<>>, "README.md", 10, Docs(<<Link("gone", "missing.md")>>, <<>>)))},
    {File(<<>>, "requirements.txt", 30,
          [kind |-> "requirements", lines |-> <<"my-pkg", "requests>=2.0", "# pinned">>]),
     File(<<>>, "requirements.txt", 30, NotText("requirements")),
     Unreadable(File(<<>>, "requirements.txt", 30,
                     [kind |-> "requirements", lines |-> <<"requests">>]))},
    {File(<<>>, "package.json", 30,
          PackageJson([dependencies |-> JsonObject(<<"left-pad", "@s/p", "lodash">>),
                       devDependencies |-> JsonObject(<<"eslint", "lodash">>)])),
     File(<<>>, "package.json", 30, [kind |-> "json", json |-> "JSONDecodeError"]),
     File(<<>>, "package.json", 30, NotText("json")),
     File(<<>>, "package.json", 30, PackageJson([dependencies |-> [type |-> "array"]])),
     File(<<>>, "package.json", 30, [kind |-> "json", top |-> "number"]),
     File(<<>>, "package.json", 30,
          PackageJson([workspaces |-> [type |-> "list", dirs |-> <<"packages/a">>]])),
     Unreadable(File(<<>>, "package.json", 30, PackageJson([dependencies |-> JsonObject(<<"x">>)])))},
    {File(<<>>, "index.js", 30,
          [kind |-> "js", import_literals |-> <<"left-pad/lib", "@s/p/q", "@s">>]),
     File(<<>>, "index.js", 30,
          [kind |-> "js", import_literals |-> <<"eslint">>,
           marker_matches |-> Markers(<<>>, <<"FIXME: remove">>)])},
    {File(<<>>, "go.mod", 30,
          [kind |-> "gomod", requires |-> <<"github.com/x/y", "github.com/z/w">>]),
     File(<<>>, "go.mod", 30, NotText("gomod"))},
    {File(<<>>, "main.go", 30, [kind |-> "go", imports |-> <<"github.com/x/y/sub", "fmt">>])},
    {File(<<>>, "Cargo.toml", 30,
          [kind |-> "cargo",
           lines |-> <<"[package]", "name = \"x\"", "[dependencies]", "serde-json = \"1\"",
                       "# old = \"1\"", "", "[dev-dependencies]", "rand = \"0.8\"">>]),
     File(<<>>, "Cargo.toml", 30, NotText("cargo"))},
    {File(<<>>, "main.rs", 30, [kind |-> "rust", uses |-> <<"serde_json", "std">>])},
    {File(<<>>, ".eslintrc", 100, NoContent), File(<<>>, ".eslintrc", 90, NoContent),
     Unstatable(File(<<>>, ".eslintrc", 100, NoContent))},
    {File(<<>>, "setup.cfg", 50, NoContent)},
    {File(<<>>, "lerna.json", 50, NoContent)},
    {File(<<>>, "big.yaml", 50, [kind |-> "data", line_count |-> 1200, tokens |-> 5000])},
    {File(<<"docs">>, "guide.md", 10,
          Docs(<<Link("code", "../a.py"), Link("gone", "missing.md")>>, <<>>))},
    {File(<<"node_modules", "pkg">>, "x_old.js", 100, NoContent)},
    {File(<<"packages", "a">>, "package.json", 30, PackageJson([name |-> [type |-> "string"]]))},
    {File(<<".git">>, "config", 30, NoContent)}
>>

RECURSIVE TreesFrom(_, _)
\* the trees of at most n files, each at one of the paths i.. of Slots
TreesFrom(i, n) ==
    IF i > Len(Slots) THEN {<<>>}
    ELSE TreesFrom(i + 1, n)
         \cup (IF n = 0 THEN {}
               ELSE {<<f>> \o rest : f \in Slots[i], rest \in TreesFrom(i + 1, n - 1)})

Trees == TreesFrom(1, MaxFiles)

\* A commit of git log --pretty=format:%H|%s|%ai|%an|%b<<<END>>>, up to the mark
LogEntry(hash, subject, author, body) ==
    hash \o "|" \o subject \o "|2026-10-01 10:00:00 +0000|" \o author \o "|" \o body

\* The git around the path: no executable, no repository, a repository without any
\* commit (git log exits non-zero, git branch -a prints nothing), one with history;
\* slow is whether a git call can take more than the 30 seconds it is given.
GitWorld(installed, under_vc, log_ok, log, branches) ==
    [installed |-> installed, under_vc |-> under_vc, toplevel |-> "/repo",
     log_ok |-> log_ok, log |-> log, branches |-> branches, slow |-> FALSE]

\* subprocess.run(..., timeout=30) raises TimeoutExpired or does not
TimedOut(git) == IF git.slow THEN BOOLEAN ELSE {FALSE}

NoGit == GitWorld(FALSE, FALSE, FALSE, <<>>, <<>>)
NoRepository == GitWorld(TRUE, FALSE, FALSE, <<>>, <<>>)
UnbornRepository == GitWorld(TRUE, TRUE, FALSE, <<>>, <<>>)
History ==
    GitWorld(TRUE, TRUE, TRUE,
             <<LogEntry("0123456789abcdef", "fix: fixed the bug, cleaned up", "Ann", ""),
               "\n" \o LogEntry("1123456789abcdef", "Add parser | with pipes", "Bob",
                                "Co-Authored-By: Claude <x>\n"),
               "\n" \o LogEntry("2123456789abcdef", "Fixed bug", "Cy", "notes"),
               "\nnot a commit",
               "">>,
             <<"* main", "  wip-x", "  remotes/origin/claude-fix", "  feature/y",
               "  remotes/origin/HOTFIX-20240101">>)

SlowHistory == [History EXCEPT !.slow = TRUE]

GitWorlds == {NoGit, NoRepository, UnbornRepository, History, SlowHistory}

----------------------------------------------------------------------------
(* analyze_repo, statement by statement. A statement assigns its local in   *)
(* loc and moves on; an exception that leaves a detector leaves analyze_repo. *)

\* item.get("confidence", 0)
Confidence(item) == IF "confidence" \in DOMAIN item THEN item.confidence ELSE 0

\* the quick-win test with > for >=
is_quick_win_above80(item) == Confidence(item) > 80

is_quick_win(item) == Confidence(item) >= 80

\* the decision test from 40 on
is_decision_needed_from40(item) == 40 <= Confidence(item) /\ Confidence(item) < 80

is_decision_needed(item) == 50 <= Confidence(item) /\ Confidence(item) < 80

\* check_cleanliness with the legacy count added to issues, as total_issues has it
check_cleanliness_with_legacy(summary) ==
    LET issues == summary.dead_files + summary.duplicates + summary.orphaned_dependencies
                  + summary.documentation_drift + summary.orphaned_configs
                  + summary.legacy_markers
    IN  IF issues = 0 THEN [is_clean |-> TRUE]
        ELSE IF issues < 5
             THEN [is_clean |-> FALSE, nearly_clean |-> TRUE, issues_count |-> issues]
             ELSE [is_clean |-> FALSE, nearly_clean |-> FALSE, issues_count |-> issues]

\* The dict check_cleanliness returns, without its message texts
check_cleanliness(summary) ==
    LET issues == summary.dead_files + summary.duplicates + summary.orphaned_dependencies
                  + summary.documentation_drift + summary.orphaned_configs
    IN  IF issues = 0 THEN [is_clean |-> TRUE]
        ELSE IF issues < 5
             THEN [is_clean |-> FALSE, nearly_clean |-> TRUE, issues_count |-> issues]
             ELSE [is_clean |-> FALSE, nearly_clean |-> FALSE, issues_count |-> issues]

\* The dict analyze_repo returns, from its locals (timestamp, names, descriptions
\* and gratitude texts are left out)
Report(l) ==
    LET all_items == l.dead_files \o l.duplicates \o l.orphaned_deps \o l.doc_drift
                     \o l.orphaned_configs
        summary ==
            [dead_files |-> Len(l.dead_files),
             duplicates |-> Len(l.duplicates),
             orphaned_dependencies |-> Len(l.orphaned_deps),
             documentation_drift |-> Len(l.doc_drift),
             orphaned_configs |-> Len(l.orphaned_configs),
             legacy_markers |-> Len(l.legacy_code),
             context_heavy |-> Len(l.context_heavy),
             total_issues |-> Len(all_items) + Len(l.legacy_code)]
    IN  [repo_path |-> l.repo_path,
         file_count |-> l.file_count,
         is_large_repo |-> l.is_large_repo,
         sample_mode |-> l.sample_mode,
         \* commit_analysis.get("has_git", False)
         has_git |-> l.commit_analysis.has_git,
         monorepo |-> l.monorepo_info,
         ecosystems |-> l.ecosystems,
         categories |->
             [dead_files |-> [items |-> l.dead_files, duplicates |-> l.duplicates,
                              count |-> Len(l.dead_files) + Len(l.duplicates)],
              dependencies |-> [items |-> l.orphaned_deps, count |-> Len(l.orphaned_deps)],
              documentation |-> [items |-> l.doc_drift, count |-> Len(l.doc_drift)],
              configuration |-> [items |-> l.orphaned_configs,
                                 count |-> Len(l.orphaned_configs)],
              legacy |-> [items |-> l.legacy_code, count |-> Len(l.legacy_code)]],
         \* {**commit_analysis, "stale_branches": stale_branches}
         git_archaeology |-> l.commit_analysis @@ [stale_branches |-> l.stale_branches],
         context_heavy_files |-> l.context_heavy,
         summary |-> summary,
         quick_wins |-> SelectSeq(all_items, is_quick_win),
         decisions_needed |-> SelectSeq(all_items \o l.legacy_code, is_decision_needed),
         cleanliness |-> check_cleanliness(summary)]

\* The statement at pc ran: its local is assigned and the next statement is due
Assign(name, value, next) ==
    /\ loc' = loc @@ (name :> value)
    /\ pc' = next
    /\ UNCHANGED <<call, env, analysis, err>>

\* The statement at pc raised: the exception leaves analyze_repo
Raise(exception, detector) ==
    /\ err' = <<[exception |-> exception, detector |-> detector]>>
    /\ pc' = "raised"
    /\ UNCHANGED <<call, env, loc, analysis>>

Init ==
    /\ call = [fn |-> "analyze_repo", arg |-> <<>>, ret |-> <<>>]
    /\ pc = "get_repo_root"
    \* every tree in a repository with history that answers in time, the trees of
    \* one file in every git world (no detector of the tree reads git, no git step
    \* reads the tree)
    /\ env \in [files : Trees, git : {History}]
               \cup [files : TreesFrom(1, 1), git : GitWorlds]
    /\ loc = [path |-> "/repo", sample_mode |-> FALSE]
    /\ analysis = <<>>
    /\ err = <<>>

\* repo_path = get_repo_root(os.path.abspath(path))
GetRepoRoot ==
    /\ pc = "get_repo_root"
    /\ \E timed_out \in TimedOut(env.git) :
          Assign("repo_path", get_repo_root(env.git, timed_out, loc.path), "count_files")

\* file_count, is_large_repo and sample_mode
CountFiles ==
    /\ pc = "count_files"
    /\ loc' = [loc EXCEPT !.sample_mode = @ \/ count_files(env.files) > 10000]
              @@ [file_count |-> count_files(env.files),
                  is_large_repo |-> count_files(env.files) > 10000]
    /\ pc' = "detect_monorepo"
    /\ UNCHANGED <<call, env, analysis, err>>

DetectMonorepo ==
    /\ pc = "detect_monorepo"
    /\ \E r \in {detect_monorepo(env.files)} :
          IF r.raised # "none" THEN Raise(r.raised, "detect_monorepo")
          ELSE Assign("monorepo_info", r.items[1], "detect_ecosystems")

DetectEcosystems ==
    /\ pc = "detect_ecosystems"
    /\ Assign("ecosystems", detect_ecosystems(env.files), "find_dead_files")

FindDeadFiles ==
    /\ pc = "find_dead_files"
    /\ Assign("dead_files", find_dead_files(env.files), "find_duplicates")

FindDuplicates ==
    /\ pc = "find_duplicates"
    /\ Assign("duplicates", find_duplicates(env.files), "find_all_orphaned_deps")

FindAllOrphanedDeps ==
    /\ pc = "find_all_orphaned_deps"
    /\ \E r \in {find_all_orphaned_deps(env.files)} :
          IF r.raised # "none" THEN Raise(r.raised, r.detector)
          ELSE Assign("orphaned_deps", r.items, "find_documentation_drift")

FindDocumentationDrift ==
    /\ pc = "find_documentation_drift"
    /\ Assign("doc_drift", find_documentation_drift(env.files), "find_orphaned_configs")

FindOrphanedConfigs ==
    /\ pc = "find_orphaned_configs"
    /\ \E r \in {find_orphaned_configs(env.files)} :
          IF r.raised # "none" THEN Raise(r.raised, "find_orphaned_configs")
          ELSE Assign("orphaned_configs", r.items, "find_legacy_code")

FindLegacyCode ==
    /\ pc = "find_legacy_code"
    /\ Assign("legacy_code", find_legacy_code(env.files), "analyze_commits")

\* commit_analysis = analyze_commits(repo_path): git rev-parse, then git log
AnalyzeCommits ==
    /\ pc = "analyze_commits"
    /\ \E rev_parse_timed_out, log_timed_out \in TimedOut(env.git) :
          LET is_repo == is_git_repo(env.git, rev_parse_timed_out)
              log_output == run_git_command(env.git, log_timed_out, env.git.log_ok, env.git.log)
          IN  Assign("commit_analysis", analyze_commits(is_repo, log_output),
                     "find_stale_branches")

\* stale_branches = find_stale_branches(repo_path): git rev-parse, then git branch -a
FindStaleBranches ==
    /\ pc = "find_stale_branches"
    /\ \E rev_parse_timed_out, branch_timed_out \in TimedOut(env.git) :
          LET is_repo == is_git_repo(env.git, rev_parse_timed_out)
              branches_output == run_git_command(env.git, branch_timed_out, TRUE,
                                                 env.git.branches)
          IN  Assign("stale_branches", find_stale_branches(is_repo, branches_output),
                     "find_context_heavy_files")

FindContextHeavyFiles ==
    /\ pc = "find_context_heavy_files"
    /\ Assign("context_heavy", find_context_heavy_files(env.files), "build_analysis")

\* analysis = {...}, quick_wins, decisions_needed, cleanliness; return analysis
BuildAnalysis ==
    /\ pc = "build_analysis"
    /\ analysis' = <<Report(loc)>>
    /\ pc' = "done"
    /\ UNCHANGED <<call, env, loc, err>>

Next ==
    \/ GetRepoRoot
    \/ CountFiles
    \/ DetectMonorepo
    \/ DetectEcosystems
    \/ FindDeadFiles
    \/ FindDuplicates
    \/ FindAllOrphanedDeps
    \/ FindDocumentationDrift
    \/ FindOrphanedConfigs
    \/ FindLegacyCode
    \/ AnalyzeCommits
    \/ FindStaleBranches
    \/ FindContextHeavyFiles
    \/ BuildAnalysis

Spec == Init /\ [][Next]_vars

----------------------------------------------------------------------------
(* The documentation drift detector alone.                                 *)

DriftUniverse ==
    {File(<<>>, "a.md", 10, Docs(<<Link("x", "./missing.md")>>, <<>>)),
     File(<<>>, "missing.md", 10, NoContent),
     File(<<"docs">>, "a.md", 10, Docs(<<Link("x", "./missing.md")>>, <<>>)),
     File(<<"docs">>, "a.md", 10,
          Docs(<<Link("x", "./missing.md"), Link("up", "../missing.md#top"),
                 Link("site", "https://example.com/missing.md")>>, <<"missing.md">>)),
     Unreadable(File(<<"docs">>, "a.md", 10, Docs(<<Link("x", "./missing.md")>>, <<>>))),
     File(<<"docs">>, "missing.md", 10, NoContent),
     File(<<"docs", "missing.md">>, "inside.txt", 10, NoContent),
     File(<<"other">>, "missing.md", 10, NoContent),
     File(<<"node_modules">>, "missing.md", 10, NoContent),
     File(<<"target">>, "t.rst", 10, Docs(<<Link("x", "./missing.md")>>, <<>>)),
     File(<<"build">>, "b.md", 10, Docs(<<Link("x", "./missing.md")>>, <<>>)),
     Unstatable(File(<<>>, "NOTES.txt", 10, Docs(<<>>, Take(ManyRefs, 2))))}
    \cup {File(<<>>, "NOTES.txt", 10, Docs(<<>>, Take(ManyRefs, n))) : n \in 0..MaxBrokenRefs}
    \cup {File(<<>>, ".notes.md", 10, Docs(<<>>, Take(ManyRefs, 1)))}

DriftTrees ==
    {w \in WalksUpTo(DriftUniverse, MaxDriftFiles) :
        /\ \A i, j \in 1..Len(w) : i # j => rel_path(w[i]) # rel_path(w[j])
        /\ \A i, j \in 1..Len(w) : Append(w[i].dir, w[i].name) # w[j].dir
        /\ TopDown(w)}

InitDrift ==
    /\ call \in [fn : {"find_documentation_drift"}, arg : DriftTrees, ret : {<<>>}]
    /\ NoRun

\* find_documentation_drift(repo_path)
CallFindDocumentationDrift ==
    /\ call.fn = "find_documentation_drift"
    /\ call.ret = <<>>
    /\ call' = [call EXCEPT !.ret = <<find_documentation_drift(call.arg)>>]
    /\ UNCHANGED run

NextDrift == CallFindDocumentationDrift

SpecDrift == InitDrift /\ [][NextDrift]_vars

----------------------------------------------------------------------------
(* The configuration detector alone.                                       *)

RECURSIVE SlotTrees(_, _, _)
\* the trees of at most n files, each at one of the paths i.. of slots (the paths
\* in the order os.walk yields them, each with the files that can be there)
SlotTrees(slots, i, n) ==
    IF i > Len(slots) THEN {<<>>}
    ELSE SlotTrees(slots, i + 1, n)
         \cup (IF n = 0 THEN {}
               ELSE {<<f>> \o rest : f \in slots[i], rest \in SlotTrees(slots, i + 1, n - 1)})

ConfigSlots == <<
    {File(<<>>, ".babelrc", 100, NoContent)},
    {File(<<>>, "my.babelrc", 100, NoContent)},
    {File(<<>>, "jest.config.ts", 100, NoContent)},
    {File(<<>>, "jest.config.yaml", 100, NoContent)},
    {File(<<>>, ".eslintrc.json", 100, NoContent), File(<<>>, ".eslintrc.json", 20, NoContent),
     Unstatable(File(<<>>, ".eslintrc.json", 100, NoContent))},
    {File(<<>>, "tsconfig.build.json", 100, NoContent)},
    {File(<<>>, "setup.cfg", 91, NoContent), File(<<>>, "setup.cfg", 90, NoContent)},
    {File(<<>>, "SETUP.CFG", 100, NoContent)},
    {File(<<>>, ".pylintrc", 100, NoContent)},
    {File(<<>>, "mypy.ini", 100, NoContent)},
    {File(<<>>, ".travis.yml", 100, NoContent)},
    {File(<<>>, "Jenkinsfile", 100, NoContent)},
    {File(<<>>, "package.json", 30,
          PackageJson([dependencies |-> JsonObject(<<"eslint">>),
                       devDependencies |-> JsonObject(<<"mypy", "jest">>)])),
     File(<<>>, "package.json", 30, PackageJson([name |-> [type |-> "string"]])),
     File(<<>>, "package.json", 30, [kind |-> "json", json |-> "JSONDecodeError"]),
     Unreadable(File(<<>>, "package.json", 30,
                     PackageJson([dependencies |-> JsonObject(<<"pylint">>)])))},
    {File(<<>>, "setup.py", 30, NoContent)},
    {File(<<>>, "pyproject.toml", 30, NoContent)},
    {File(<<>>, "requirements.txt", 30, NoContent)},
    {File(<<"pyproject.toml">>, "inside.txt", 30, NoContent)},
    {File(<<"sub">>, "setup.cfg", 100, NoContent)},
    {File(<<"sub">>, "setup.py", 30, NoContent)},
    {File(<<"sub">>, "package.json", 30, NoContent)},
    {File(<<".circleci">>, "config.yml", 100, NoContent)},
    {File(<<"node_modules", "pkg">>, ".babelrc", 100, NoContent)}
>>

\* a path is a file or a directory, never both
ConfigTrees ==
    {w \in SlotTrees(ConfigSlots, 1, MaxConfigFiles) :
        \A i, j \in 1..Len(w) : Append(w[i].dir, w[i].name) # w[j].dir}

InitConfig ==
    /\ call \in [fn : {"find_orphaned_configs"}, arg : ConfigTrees, ret : {<<>>}]
    /\ NoRun

\* find_orphaned_configs(repo_path)
CallFindOrphanedConfigs ==
    /\ call.fn = "find_orphaned_configs"
    /\ call.ret = <<>>
    /\ call' = [call EXCEPT !.ret = <<find_orphaned_configs(call.arg)>>]
    /\ UNCHANGED run

NextConfig == CallFindOrphanedConfigs

SpecConfig == InitConfig /\ [][NextConfig]_vars

----------------------------------------------------------------------------
(* The commit classifier alone.                                            *)

CommitSubjects ==
    <<"Fixed bug", "fix: fixed the bug, cleaned up", "Bump version", "WIP",
      "wip: cleanup", "feat(cli): implemented parser, added new feature",
      "Refactored  core; minor fixes; updated docs; initial commit",
      "Generated with Codex", "fix: a|b in the parser, cleaned up", "prefix: fixed bugs",
      "fix: cleaned up | Generated with Cursor">>

CommitBodies ==
    <<"", "Co-Authored-By: Claude <noreply@example.com>", "co-authored-by: claude",
      "Some text\n\nGenerated with Cursor">>

\* A commit of the history; its hash tells subject s and body b
Commit(s, b) ==
    [hash |-> "c" \o DigitChars[(s \div 10) + 1] \o DigitChars[(s % 10) + 1] \o DigitChars[b]
                  \o "0123456789",
     subject |-> CommitSubjects[s], author |-> "Dev", body |-> CommitBodies[b]]

CommitUniverse ==
    {Commit(s, 1) : s \in 1..Len(CommitSubjects)}
    \cup {Commit(s, b) : s \in {1, 2, 3}, b \in 2..Len(CommitBodies)}

Histories ==
    {h \in SeqsUpTo(CommitUniverse, MaxCommits) :
        \A i, j \in 1..Len(h) : i # j => h[i] # h[j]}

\* log_output.split("<<<END>>>") for the output of git log on a history: commit
\* after commit in the --pretty format, a newline between two commits, and the
\* empty piece after the last mark
git_log(commits) ==
    IF commits = <<>> THEN <<>>
    ELSE [i \in 1..Len(commits) |->
             (IF i > 1 THEN "\n" ELSE "")
                 \o LogEntry(commits[i].hash, commits[i].subject, commits[i].author,
                             commits[i].body)]
         \o <<"">>

InitCommits ==
    /\ call \in [fn : {"analyze_commits"}, arg : Histories, ret : {<<>>}]
    /\ NoRun

\* analyze_commits(repo_path) in a repository whose history is call.arg
CallAnalyzeCommits ==
    /\ call.fn = "analyze_commits"
    /\ call.ret = <<>>
    /\ call' = [call EXCEPT !.ret = <<analyze_commits(TRUE, <<git_log(call.arg)>>)>>]
    /\ UNCHANGED run

NextCommits == CallAnalyzeCommits

SpecCommits == InitCommits /\ [][NextCommits]_vars

----------------------------------------------------------------------------
(* The cleanliness check alone.                                            *)

\* The summaries analyze_repo can build: each count is the length of a list
Summaries ==
    {[dead_files |-> c[1], duplicates |-> c[2], orphaned_dependencies |-> c[3],
      documentation_drift |-> c[4], orphaned_configs |-> c[5], legacy_markers |-> c[6],
      context_heavy |-> 0, total_issues |-> c[1] + c[2] + c[3] + c[4] + c[5] + c[6]] :
        c \in [1..6 -> 0..MaxCount]}

InitClean ==
    /\ call \in [fn : {"check_cleanliness"}, arg : Summaries, ret : {<<>>}]
    /\ NoRun

\* check_cleanliness(summary)
CallCheckCleanliness ==
    /\ call.fn = "check_cleanliness"
    /\ call.ret = <<>>
    /\ call' = [call EXCEPT !.ret = <<check_cleanliness(call.arg)>>]
    /\ UNCHANGED run

NextClean == CallCheckCleanliness

SpecClean == InitClean /\ [][NextClean]_vars

----------------------------------------------------------------------------
(* The narrative. Every finding is built with a gratitude text drawn by    *)
(* random.choice; the lists are ranked, cut and filtered with the text in  *)
(* the items. Two runs on one tree differ in their draws only.             *)

\* choices of generate_gratitude: the templates of the item type
generate_gratitude(item_type, identifier, age_days) ==
    CASE item_type = "dead_file" ->
           <<"Thank you, " \o identifier \o ", for being part of this project's journey.",
             "Thank you for the work you represented. Your purpose has been fulfilled.",
             "Gratitude for " \o identifier \o " - you served your purpose during development.">>
      [] item_type = "duplicate" ->
           <<"Thank you for preserving a backup of " \o identifier
                 \o ". That safety is no longer needed.",
             "Gratitude for being a safety net. Version control now provides this security.">>
      [] item_type = "dependency" ->
           <<"Thank you, " \o identifier \o ", for the capability you offered, even if unused.",
             "Gratitude for " \o identifier \o " - you taught us about available tools.">>
      [] item_type = "documentation" ->
           <<"Thank you, documentation, for attempting to guide future developers.",
             "Gratitude for documenting past understanding, even as the code evolved.">>
      [] item_type = "config" ->
           <<"Thank you, " \o identifier \o " configuration, for the tooling you once enabled.",
             "Gratitude for the development environment you helped create.">>
      [] item_type = "legacy" ->
           <<"Deep gratitude to this code for getting the project to where it is today.",
             "Thank you for the foundation you provided. Your lessons remain even as you go.">>
      [] OTHER -> <<"Thank you, " \o identifier \o ", for your service.">>

\* The arguments each detector passes to generate_gratitude for the finding it builds
gratitude_args(item) ==
    CASE item.reason = "dead_file_pattern" -> <<"dead_file", item.path, item.age_days>>
      [] item.reason = "potential_duplicates" ->
           <<"duplicate", Join(path_stem(Chars(item.base_name))), 0>>
      [] item.reason = "documentation_drift" -> <<"documentation", item.path, 0>>
      [] item.reason = "orphaned_config" -> <<"config", item.tool, item.age_days>>
      [] item.reason = "contains_deprecation_markers" -> <<"legacy", item.path, item.age_days>>
      [] OTHER -> <<"dependency", item.package, 0>>

\* The finding with a text that leaks into the score: the draw is added to confidence
with_gratitude_scored(item, draw) ==
    LET a == gratitude_args(item)
        choices == generate_gratitude(a[1], a[2], a[3])
    IN  [item EXCEPT !.confidence = @ + draw]
            @@ [gratitude |-> choices[((draw - 1) % Len(choices)) + 1]]

\* The finding as its detector builds it: "gratitude": generate_gratitude(...), where
\* random.choice takes the template the draw tells
with_gratitude(item, draw) ==
    LET a == gratitude_args(item)
        choices == generate_gratitude(a[1], a[2], a[3])
    IN  item @@ [gratitude |-> choices[((draw - 1) % Len(choices)) + 1]]

\* The findings of the detectors in the order they are built, before any list is
\* sorted or cut (the manifests of NarrativeTrees raise nothing)
unranked_findings(files) ==
    LET seen == walk(files, IGNORED_DIRS, TRUE)
        More(d) == d.count > 1
        IsCode(f) == EndsWithAny(f.name, LEGACY_EXTENSIONS)
        code == SelectSeq(seen, IsCode)
    IN  [dead_files |-> Flatten([i \in 1..Len(seen) |-> DeadFileFinding(seen[i])]),
         duplicates |-> SelectSeq(DuplicateGroups(files), More),
         orphaned_deps |-> find_all_orphaned_deps(files).items,
         doc_drift |-> find_documentation_drift(files),
         orphaned_configs |-> find_orphaned_configs(files).items,
         legacy_code |-> Flatten([i \in 1..Len(code) |-> LegacyFinding(code[i])])]

DetectorOrder ==
    <<"dead_files", "duplicates", "orphaned_deps", "doc_drift", "orphaned_configs",
      "legacy_code">>

\* How many findings the detectors before detector k have built
BuiltBefore(found, k) ==
    IF k = 1 THEN 0
    ELSE LET before == Flatten([d \in 1..(k - 1) |-> found[DetectorOrder[d]]])
         IN  Len(before)

\* The locals of analyze_repo after a run in which the n-th call of random.choice
\* draws draws[n] (taken again from the start when the run has more findings): the
\* findings with their texts, the lists sorted and cut as their detectors do
narrated_locals(files, found, draws) ==
    LET Drawn(k) ==
            [i \in 1..Len(found[DetectorOrder[k]]) |->
                with_gratitude(found[DetectorOrder[k]][i],
                               draws[((BuiltBefore(found, k) + i - 1) % Len(draws)) + 1])]
    IN  [repo_path |-> "/repo",
         sample_mode |-> FALSE,
         file_count |-> count_files(files),
         is_large_repo |-> count_files(files) > 10000,
         monorepo_info |-> detect_monorepo(files).items[1],
         ecosystems |-> detect_ecosystems(files),
         dead_files |-> sorted_reverse(Drawn(1), Column(Drawn(1), "confidence")),
         duplicates |->
             Take(sorted_reverse(Drawn(2), Column(Drawn(2), "count")), MAX_DUPLICATE_GROUPS),
         orphaned_deps |-> Drawn(3),
         doc_drift |-> Drawn(4),
         orphaned_configs |-> Drawn(5),
         legacy_code |-> Take(sorted_reverse(Drawn(6), Column(Drawn(6), "marker_count")), 15),
         commit_analysis |-> analyze_commits(FALSE, <<>>),
         stale_branches |-> find_stale_branches(FALSE, <<>>),
         context_heavy |-> find_context_heavy_files(files)]

NarrativeSlots == <<
    {File(<<>>, "a_old.py", 200, NoContent), File(<<>>, "a_old.py", 95, NoContent)},
    {File(<<>>, "a.py", 300,
          [kind |-> "python", parse |-> "ok", imports |-> <<"requests">>,
           marker_matches |-> Markers(<<"@deprecated">>, <<"TODO: remove">>)])},
    {File(<<>>, "b_bak.py", 200, NoContent)},
    {File(<<>>, "PLAN.md", 200, NoContent)},
    {File(<<>>, "README.md", 10, Docs(<<>>, Take(ManyRefs, 4))),
     File(<<>>, "README.md", 10, Docs(<<Link("gone", "missing.md")>>, <<>>))},
    {File(<<>>, "requirements.txt", 30,
          [kind |-> "requirements", lines |-> <<"my-pkg", "requests>=2.0", "flask">>])},
    {File(<<>>, ".eslintrc", 100, NoContent)},
    {File(<<"src">>, "a_copy.py", 95, NoContent)}
>>

NarrativeTrees == SlotTrees(NarrativeSlots, 1, MaxNarrativeFiles)

Draws == [1..MaxDraws -> 1..3]

InitNarrative ==
    /\ call \in [fn : {"analyze_repo"}, arg : NarrativeTrees, ret : {<<>>}]
    /\ NoRun

\* One more run of analyze_repo on the tree, which stays as it is; call.ret holds
\* the reports of the runs so far
RunAnalyzeRepo ==
    /\ call.fn = "analyze_repo"
    /\ Len(call.ret) < 2
    /\ \E found \in {unranked_findings(call.arg)} : \E draws \in Draws :
          call' = [call EXCEPT !.ret = Append(@, Report(narrated_locals(call.arg, found, draws)))]
    /\ UNCHANGED run

NextNarrative == RunAnalyzeRepo

SpecNarrative == InitNarrative /\ [][NextNarrative]_vars

----------------------------------------------------------------------------
(* The dead-file detector alone.                                           *)

DeadSlots == <<
    {File(<<>>, "PLAN.md", 200, NoContent), File(<<>>, "PLAN.md", 5, NoContent)},
    {File(<<>>, "plan.MD", 200, NoContent)},
    {File(<<>>, "PLAN.md.txt", 200, NoContent)},
    {File(<<>>, "notes.md", 100, NoContent)},
    {File(<<>>, "notes_x.md", 100, NoContent)},
    {File(<<>>, "a.py", 100, NoContent)},
    {File(<<>>, "a_old.py", 100, NoContent), Unstatable(File(<<>>, "a_old.py", 100, NoContent))},
    {File(<<>>, "A_OLD.PY", 100, NoContent)},
    {File(<<>>, "a_copy.py", 100, NoContent)},
    {File(<<>>, "a_copy2.py", 100, NoContent)},
    {File(<<>>, "old_temp.bak", 100, NoContent)},
    {File(<<>>, "temp_old.py", 100, NoContent)},
    {File(<<>>, "scratch_x.py", 100, NoContent)},
    {File(<<>>, "my_test_x.py", 100, NoContent)},
    {File(<<"docs">>, "PLAN.md", 40, NoContent)},
    {File(<<"docs">>, "a_old.py", 10, NoContent)},
    {File(<<"docs">>, "temp_old.py", 300, NoContent)},
    {File(<<"old_stuff">>, "a.py", 100, NoContent)},
    {File(<<"src", "deep">>, "a_copy.py", 50, NoContent)},
    {File(<<"node_modules">>, "a_old.py", 100, NoContent)}
>>

DeadTrees == SlotTrees(DeadSlots, 1, MaxDeadFiles)

InitDead ==
    /\ call \in [fn : {"find_dead_files"}, arg : DeadTrees, ret : {<<>>}]
    /\ NoRun

\* find_dead_files(repo_path)
CallFindDeadFiles ==
    /\ call.fn = "find_dead_files"
    /\ call.ret = <<>>
    /\ call' = [call EXCEPT !.ret = <<find_dead_files(call.arg)>>]
    /\ UNCHANGED run

NextDead == CallFindDeadFiles

SpecDead == InitDead /\ [][NextDead]_vars

----------------------------------------------------------------------------
(* The dependency detectors alone.                                         *)

DepSlots == <<
    {File(<<>>, "a.py", 20, Python(<<"my_pkg">>)), File(<<>>, "a.py", 20, Python(<<"os">>))},
    {File(<<>>, "requirements.txt", 30,
          [kind |-> "requirements", lines |-> <<"My-Pkg", "flask">>])},
    {File(<<>>, "package.json", 30,
          PackageJson([dependencies |-> JsonObject(<<"My-Pkg", "lodash">>)])),
     File(<<>>, "package.json", 30,
          PackageJson([devDependencies |-> JsonObject(<<"my_pkg">>)]))},
    {File(<<>>, "index.js", 30, [kind |-> "js", import_literals |-> <<"my_pkg", "lodash/fp">>]),
     File(<<>>, "index.js", 30, [kind |-> "js", import_literals |-> <<"My-Pkg">>])},
    {File(<<>>, "go.mod", 30, [kind |-> "gomod", requires |-> <<"github.com/X/My-Mod">>]),
     File(<<>>, "go.mod", 30, [kind |-> "gomod", requires |-> <<"github.com/x/my_mod">>])},
    {File(<<>>, "main.go", 30, [kind |-> "go", imports |-> <<"github.com/x/my_mod/sub", "fmt">>])},
    {File(<<>>, "Cargo.toml", 30,
          [kind |-> "cargo",
           lines |-> <<"[dependencies]", "Serde = \"1\"", "serde-json = \"1\"", "rand = \"0.8\"">>])},
    {File(<<>>, "main.rs", 30, [kind |-> "rust", uses |-> <<"serde", "serde_json", "std">>]),
     File(<<>>, "main.rs", 30, [kind |-> "rust", uses |-> <<"Serde", "std">>])}
>>

DepTrees == SlotTrees(DepSlots, 1, MaxDepFiles)

InitDeps ==
    /\ call \in [fn : {"find_all_orphaned_deps"}, arg : DepTrees, ret : {<<>>}]
    /\ NoRun

\* find_all_orphaned_deps(repo_path)
CallFindAllOrphanedDeps ==
    /\ call.fn = "find_all_orphaned_deps"
    /\ call.ret = <<>>
    /\ call' = [call EXCEPT !.ret = <<find_all_orphaned_deps(call.arg)>>]
    /\ UNCHANGED run

NextDeps == CallFindAllOrphanedDeps

SpecDeps == InitDeps /\ [][NextDeps]_vars

----------------------------------------------------------------------------
(* The legacy detector alone.                                              *)

\* A source file in which re.findall finds `deprecated` for the first pattern and
\* nothing for the others
Code(deprecated) == [kind |-> "code", marker_matches |-> Markers(deprecated, <<>>)]

\* What the ten patterns find in a file that has four matches of the first, three
\* of the second and the same text twice for the ninth
RichMatches ==
    <<<<"@deprecated", "@ deprecated", "@Deprecated", "@DEPRECATED">>,
      <<"// @deprecated", "//  @deprecated", "// x @deprecated">>,
      <<>>, <<>>, <<>>, <<>>, <<>>, <<>>,
      <<"TODO: remove", "TODO: remove">>, <<>>>>

LegacyHeadSlots == <<
    {File(<<>>, "rich.js", 500, [kind |-> "code", marker_matches |-> RichMatches]),
     Unreadable(File(<<>>, "rich.js", 500, [kind |-> "code", marker_matches |-> RichMatches])),
     Unstatable(File(<<>>, "rich.js", 500, [kind |-> "code", marker_matches |-> RichMatches])),
     File(<<>>, "rich.js", 500, NoContent)},
    {File(<<>>, "notes.md", 10, Code(<<"@deprecated", "@deprecated">>))},
    {File(<<>>, "old.java", MaxAgeDays, Code(<<"@Deprecated">>))}>>

LegacyTails ==
    {<<>>,
     <<File(<<"node_modules">>, "dep.js", 10, Code(<<"@deprecated">>))>>,
     <<File(<<".cache">>, "gen.py", 10, Code(<<"@deprecated">>))>>,
     <<File(<<"src", "lib">>, "deep.ts", 0, Code(<<"@deprecated", "@deprecated">>))>>}

\* The number of matches of the first pattern in bulk file i follows a cycle
LegacyCycles == {<<1>>, <<1, 2, 3>>, <<4, 0, 2>>, <<3, 1, 4, 2>>}

\* n files k01.py, k02.py, ... of different ages
LegacyBulk(n, cycle) ==
    [i \in 1..n |->
        File(<<>>, BulkName(i, 1), 10 * i,
             Code([k \in 1..cycle[((i - 1) % Len(cycle)) + 1] |-> "@deprecated"]))]

LegacyTrees ==
    {head \o LegacyBulk(n, cycle) \o tail :
        head \in SlotTrees(LegacyHeadSlots, 1, 2), n \in 0..MaxLegacyFiles,
        cycle \in LegacyCycles, tail \in LegacyTails}

InitLegacy ==
    /\ call \in [fn : {"find_legacy_code"}, arg : LegacyTrees, ret : {<<>>}]
    /\ NoRun

\* find_legacy_code(repo_path)
CallFindLegacyCode ==
    /\ call.fn = "find_legacy_code"
    /\ call.ret = <<>>
    /\ call' = [call EXCEPT !.ret = <<find_legacy_code(call.arg)>>]
    /\ UNCHANGED run

NextLegacy == CallFindLegacyCode

SpecLegacy == InitLegacy /\ [][NextLegacy]_vars

----------------------------------------------------------------------------
(* The tree walks of the detectors side by side.                           *)

\* The paths each os.walk of the program yields for one tree, by the function that
\* walks (find_documentation_drift walks twice: once for existing_files, once for
\* the documents)
detector_walks(files) ==
    LET Paths(seen) == {rel_path(seen[i]) : i \in 1..Len(seen)}
    IN  [count_files |-> Paths(walk(files, COUNT_IGNORED_DIRS, TRUE)),
         find_dead_files |-> Paths(walk(files, IGNORED_DIRS, TRUE)),
         find_duplicates |-> Paths(walk(files, IGNORED_DIRS, TRUE)),
         detect_ecosystems |-> Paths(walk(files, IGNORED_DIRS, TRUE)),
         extract_python_imports |-> Paths(walk(files, IGNORED_DIRS, TRUE)),
         find_orphaned_js_deps |-> Paths(walk(files, IGNORED_DIRS, TRUE)),
         find_orphaned_go_deps |-> Paths(walk(files, GO_IGNORED_DIRS, TRUE)),
         find_orphaned_rust_deps |-> Paths(walk(files, RUST_IGNORED_DIRS, TRUE)),
         existing_files |-> Paths(walk(files, IGNORED_DIRS, TRUE)),
         find_documentation_drift |-> Paths(walk(files, DOC_IGNORED_DIRS, TRUE)),
         find_orphaned_configs |-> Paths(walk(files, IGNORED_DIRS, TRUE)),
         find_legacy_code |-> Paths(walk(files, IGNORED_DIRS, TRUE)),
         find_context_heavy_files |-> Paths(walk(files, IGNORED_DIRS, TRUE)),
         detect_monorepo |-> Paths(walk(files, MONOREPO_IGNORED_DIRS, FALSE))]

WalkSlots ==
    <<{PlainFile(<<>>, "f.txt")}, {PlainFile(<<>>, "g.txt")},
      {PlainFile(<<".cache">>, "f.txt")}, {PlainFile(<<".git">>, "f.txt")},
      {PlainFile(<<"__pycache__">>, "f.txt")}, {PlainFile(<<"build">>, "f.txt")},
      {PlainFile(<<"dist">>, "f.txt")}, {PlainFile(<<"node_modules">>, "f.txt")},
      {PlainFile(<<"src">>, "f.txt")}, {PlainFile(<<"src", ".cache">>, "f.txt")},
      {PlainFile(<<"src", "build">>, "f.txt")}, {PlainFile(<<"src", "vendor">>, "f.txt")},
      {PlainFile(<<"target">>, "f.txt")}, {PlainFile(<<"vendor">>, "f.txt")},
      {PlainFile(<<"venv">>, "f.txt")}>>

WalkTrees == SlotTrees(WalkSlots, 1, MaxWalkFiles)

InitWalks ==
    /\ call \in [fn : {"detector_walks"}, arg : WalkTrees, ret : {<<>>}]
    /\ NoRun

\* every walk of analyze_repo(repo_path) on one tree
CallDetectorWalks ==
    /\ call.fn = "detector_walks"
    /\ call.ret = <<>>
    /\ call' = [call EXCEPT !.ret = <<detector_walks(call.arg)>>]
    /\ UNCHANGED run

NextWalks == CallDetectorWalks

SpecWalks == InitWalks /\ [][NextWalks]_vars

----------------------------------------------------------------------------
(* analyze_repo with and without sample_mode, on small and on large trees. *)

\* file_count > 10000
LARGE_REPO_FILES == 10000

\* A large tree is a tree of NarrativeTrees with bulk more files data/d00001.bin,
\* data/d00002.bin, ... beside it: count_files counts them, and no detector has a
\* finding for them (no pattern matches the names, no two share a duplicate key,
\* and .bin is no manifest, document, configuration or source file).
Bulks == {0, LARGE_REPO_FILES - 2, LARGE_REPO_FILES - 1, LARGE_REPO_FILES}

\* narrated_locals with the sample_mode the caller passed left as it is
sampled_locals_unforced(files, bulk, sample_mode, found, draws) ==
    [narrated_locals(files, found, draws) EXCEPT
        !.file_count = count_files(files) + bulk,
        !.is_large_repo = count_files(files) + bulk > LARGE_REPO_FILES,
        !.sample_mode = sample_mode]

\* The locals of analyze_repo(path, sample_mode) on a tree with bulk more files
sampled_locals(files, bulk, sample_mode, found, draws) ==
    [narrated_locals(files, found, draws) EXCEPT
        !.file_count = count_files(files) + bulk,
        !.is_large_repo = count_files(files) + bulk > LARGE_REPO_FILES,
        !.sample_mode = sample_mode \/ count_files(files) + bulk > LARGE_REPO_FILES]

\* The draws of random.choice in these runs: every call of a run picks the same
\* template (what the texts change is the matter of SpecNarrative)
SampleDraws == {[n \in 1..MaxDraws |-> d] : d \in 1..3}

InitSample ==
    /\ call \in [fn : {"analyze_repo(sample_mode)"},
                 arg : [files : NarrativeTrees, bulk : Bulks], ret : {<<>>}]
    /\ NoRun

\* One more run of analyze_repo(path, sample_mode) on the tree, which stays as it
\* is; call.ret holds the argument and the report of each run so far
RunAnalyzeRepoSampled ==
    /\ call.fn = "analyze_repo(sample_mode)"
    /\ Len(call.ret) < 2
    /\ \E found \in {unranked_findings(call.arg.files)} :
       \E draws \in SampleDraws : \E sample_mode \in BOOLEAN :
          call' = [call EXCEPT !.ret =
                      Append(@, [sample_mode |-> sample_mode,
                                 report |-> Report(sampled_locals(call.arg.files, call.arg.bulk,
                                                                  sample_mode, found, draws))])]
    /\ UNCHANGED run

NextSample == RunAnalyzeRepoSampled

SpecSample == InitSample /\ [][NextSample]_vars

----------------------------------------------------------------------------
(* analyze_repo on trees with findings of every category.                  *)

\* The ages on both sides of every threshold of calculate_confidence
ThresholdAges == {0 - MaxFutureDays, 13, 14, 29, 30, 60, 61, 90, 91, 180, 181}

ReportSlots == <<
    {File(<<>>, "a_old.py", age, NoContent) : age \in ThresholdAges}
        \cup {File(<<>>, "a_old.py", 181, Code(<<"@deprecated">>))},
    {File(<<>>, "a.py", 300, Code(<<"@deprecated", "@deprecated">>)),
     File(<<>>, "a.py", 20, Python(<<"requests">>))},
    {File(<<>>, "PLAN.md", age, NoContent) : age \in ThresholdAges},
    {File(<<>>, "README.md", 10, Docs(<<>>, Take(ManyRefs, n))) : n \in {1, 3, 4, MaxBrokenRefs}},
    {File(<<>>, "requirements.txt", 30,
          [kind |-> "requirements", lines |-> <<"requests>=2.0", "flask">>])},
    {File(<<>>, "package.json", 30,
          PackageJson([dependencies |-> JsonObject(<<"lodash">>)]))},
    {File(<<>>, ".eslintrc", 100, NoContent), File(<<>>, ".eslintrc", 20, NoContent)}
>>

ReportTrees == SlotTrees(ReportSlots, 1, MaxReportFiles)

InitReport ==
    /\ call \in [fn : {"analyze_repo()"}, arg : ReportTrees, ret : {<<>>}]
    /\ NoRun

\* analyze_repo(path) outside a git repository
CallAnalyzeRepo ==
    /\ call.fn = "analyze_repo()"
    /\ call.ret = <<>>
    /\ \E found \in {unranked_findings(call.arg)} : \E draws \in Draws :
          call' = [call EXCEPT !.ret = <<Report(narrated_locals(call.arg, found, draws))>>]
    /\ UNCHANGED run

NextReport == CallAnalyzeRepo

SpecReport == InitReport /\ [][NextReport]_vars

----------------------------------------------------------------------------
(* The dependency detectors on manifests at the root and below it.         *)

Requirements(lines) == [kind |-> "requirements", lines |-> lines]
GoMod(requires) == [kind |-> "gomod", requires |-> requires]
Cargo(crate) == [kind |-> "cargo", lines |-> <<"[dependencies]", crate \o " = \"1\"">>]

ManifestSlots == <<
    {File(<<>>, "a.py", 20, Python(<<"os">>))},
    {File(<<>>, "requirements.txt", 30, Requirements(<<"flask">>))},
    {File(<<>>, "requirements-dev.txt", 30, Requirements(<<"pytest">>))},
    {File(<<>>, "requirements-test.txt", 30, Requirements(<<"tox">>))},
    {File(<<>>, "pyproject.toml", 30, NoContent)},
    {File(<<>>, "setup.py", 30, Python(<<"setuptools">>))},
    {File(<<>>, "Pipfile", 30, NoContent)},
    {File(<<>>, "package.json", 30, PackageJson([dependencies |-> JsonObject(<<"lodash">>)]))},
    {File(<<>>, "go.mod", 30, GoMod(<<"github.com/a/b">>))},
    {File(<<>>, "Cargo.toml", 30, Cargo("serde"))},
    {File(<<"svc">>, "Cargo.toml", 30, Cargo("rand"))},
    {File(<<"svc">>, "Pipfile", 30, NoContent)},
    {File(<<"svc">>, "go.mod", 30, GoMod(<<"github.com/c/d">>))},
    {File(<<"svc">>, "package.json", 30, PackageJson([dependencies |-> JsonObject(<<"react">>)]))},
    {File(<<"svc">>, "requirements-dev.txt", 30, Requirements(<<"black">>))},
    {File(<<"svc">>, "requirements.txt", 30, Requirements(<<"django">>))}
>>

ManifestTrees == SlotTrees(ManifestSlots, 1, MaxManifestFiles)

InitManifests ==
    /\ call \in [fn : {"find_all_orphaned_deps"}, arg : ManifestTrees, ret : {<<>>}]
    /\ NoRun

SpecManifests == InitManifests /\ [][NextDeps]_vars

----------------------------------------------------------------------------
(* Properties of the scorer (checked under SpecScore).                     *)

Indicator(b) == IF b THEN 1 ELSE 0
Clamp(x, lo, hi) == IF x < lo THEN lo ELSE IF x > hi THEN hi ELSE x
AgeBonus(age) == IF age > 180 THEN 15 ELSE IF age > 90 THEN 10 ELSE IF age > 60 THEN 5 ELSE 0
AgePenalty(age) == IF age < 14 THEN 35 ELSE IF age < 30 THEN 20 ELSE 0

Scored == call.fn = "calculate_confidence" /\ call.ret # <<>>

\* C2: calculate_confidence returns clamp(50 + 20*[pattern] + 15*[ai] + 15*[duplicate]
\* + ageBonus - agePenalty - 40*[imported], 0, 100), a function of these five
\* arguments alone.
C2_ClosedForm ==
    Scored =>
        call.ret[1] = Clamp(50 + 20 * Indicator(call.arg.matches_pattern)
                               + 15 * Indicator(call.arg.is_ai_artifact)
                               + 15 * Indicator(call.arg.is_duplicate)
                               + AgeBonus(call.arg.age_days)
                               - AgePenalty(call.arg.age_days)
                               - 40 * Indicator(call.arg.is_imported), 0, 100)

\* A call whose raw sum (50 + 20 + 15 + 15 + 15 = 115) is clamped to 100.
C2_Witness ==
    /\ Scored
    /\ call.arg.matches_pattern /\ call.arg.is_ai_artifact /\ call.arg.is_duplicate
    /\ ~call.arg.is_imported
    /\ call.arg.age_days = 181
    /\ call.ret[1] = 100

\* C3: with the boolean signals fixed, a file younger than 14 days scores strictly
\* lower than the same file older than 180 days; a plain pattern match scores 35 at
\* 1 day and 85 at 200 days.
C3_RecencyDominates ==
    Scored =>
        /\ call.arg.age_days < 14 =>
             \A old \in {a \in AgeRange : a > 180} :
                 call.ret[1] < calculate_confidence(call.arg.matches_pattern,
                                    call.arg.is_ai_artifact, call.arg.is_duplicate,
                                    call.arg.is_imported, old)
        /\ ( /\ call.arg.matches_pattern /\ ~call.arg.is_ai_artifact
             /\ ~call.arg.is_duplicate /\ ~call.arg.is_imported ) =>
             /\ call.arg.age_days = 1 => call.ret[1] = 35
             /\ call.arg.age_days = 200 => call.ret[1] = 85

\* The plain pattern match of one day ago, scored 35.
C3_Witness ==
    /\ Scored
    /\ call.arg.matches_pattern /\ ~call.arg.is_ai_artifact
    /\ ~call.arg.is_duplicate /\ ~call.arg.is_imported
    /\ call.arg.age_days = 1
    /\ call.ret[1] = 35

\* The score of the call's signals at another age
ScoreAtAge(age_days) ==
    calculate_confidence(call.arg.matches_pattern, call.arg.is_ai_artifact,
                         call.arg.is_duplicate, call.arg.is_imported, age_days)

AgeBoundaries == {14, 30, 61, 91, 181}

\* C25: for every fixed combination of the boolean signals, calculate_confidence is
\* non-decreasing in age_days, negative ages included: an older file never scores
\* lower, and at each of the boundaries 14, 30, 61, 91 and 181 days the score can
\* only step up.
C25_MonotoneInAge ==
    Scored =>
        /\ \A older \in AgeRange : older >= call.arg.age_days => ScoreAtAge(older) >= call.ret[1]
        /\ \A younger \in AgeRange :
              younger <= call.arg.age_days => ScoreAtAge(younger) <= call.ret[1]
        /\ call.arg.age_days \in AgeBoundaries
              => call.ret[1] >= ScoreAtAge(call.arg.age_days - 1)

\* A call at a boundary where the score does step up, others at a negative age and
\* at the greatest age being scored lower and higher
C25_Witness ==
    /\ Scored
    /\ call.arg.age_days = 181
    /\ call.ret[1] > ScoreAtAge(180)
    /\ ScoreAtAge(0 - MaxFutureDays) < call.ret[1]
    /\ ScoreAtAge(61) > ScoreAtAge(60)
    /\ ScoreAtAge(30) > ScoreAtAge(29)
    /\ ScoreAtAge(14) > ScoreAtAge(13)
    /\ ScoreAtAge(91) > ScoreAtAge(90)

----------------------------------------------------------------------------
(* Properties of the duplicate grouper (checked under SpecDup).            *)

Grouped == call.fn = "find_duplicates" /\ call.ret # <<>>

\* C8: before the cut to 20 groups, two files are in one duplicate group exactly when
\* their normalized keys are equal, so that grouping is symmetric and transitive and
\* no file is in two groups; a.py, a_old.py and a_copy.py of one directory share a
\* group.
C8_GroupingIsKeyEquality ==
    Grouped =>
        LET seen == walk(call.arg, IGNORED_DIRS, TRUE)
            groups == call.ret[1].groups
            N == 1..Len(seen)
            trio == {"a.py", "a_old.py", "a_copy.py"}
        IN  \A key \in {[i \in N |-> DuplicateKey(seen[i].name)]} :
            \A groupsOf \in {[i \in N |->
                      {j \in 1..Len(groups) : rel_path(seen[i]) \in groups[j].files}]} :
            \A same \in {[i \in N |-> {k \in N : groupsOf[i] \cap groupsOf[k] # {}}]} :
                /\ \A i, k \in N : i # k => (k \in same[i] <=> key[i] = key[k])
                /\ \A i \in N : \A k \in same[i] \ {i} :
                       /\ i \in same[k]
                       /\ \A m \in same[k] \ {i, k} : m \in same[i]
                /\ \A i \in N : Cardinality(groupsOf[i]) <= 1
                /\ \A d \in {seen[i].dir : i \in N} :
                       trio \subseteq {seen[i].name : i \in {k \in N : seen[k].dir = d}}
                           => \E j \in 1..Len(groups) :
                                  {rel_path(PlainFile(d, n)) : n \in trio}
                                      \subseteq groups[j].files

\* a.py, a_copy.py and a_old.py of the root, walked in any order, in one group
C8_Witness ==
    /\ Grouped
    /\ Len(call.arg) = 3
    /\ {call.arg[i].name : i \in 1..3} = {"a.py", "a_old.py", "a_copy.py"}
    /\ \A i \in 1..3 : call.arg[i].dir = <<>>
    /\ Len(call.ret[1].groups) = 1
    /\ call.ret[1].groups[1].files = {"a.py", "a_old.py", "a_copy.py"}

\* C9: find_duplicates returns only groups of at least 2 paths, at most 20 of them, in
\* order of non-increasing member count, and no group it leaves out has more members
\* than one it returns.
C9_CappedAndOrdered ==
    Grouped =>
        LET result == call.ret[1].result
            groups == call.ret[1].groups
            omitted == {i \in 1..Len(groups) :
                           groups[i].count > 1 /\ groups[i] \notin Range(result)}
        IN  /\ Len(result) <= 20
            /\ \A i \in 1..Len(result) :
                   /\ result[i].count >= 2
                   /\ Cardinality(result[i].files) = result[i].count
                   /\ result[i] \in Range(groups)
            /\ \A i, j \in 1..Len(result) : i < j => result[i].count >= result[j].count
            /\ \A i \in omitted : \A j \in 1..Len(result) : groups[i].count <= result[j].count
            /\ Len(groups) <= 20 => omitted = {}

\* More than 20 groups of two sizes, found in an order that is not the sorted one:
\* 20 are returned and a smaller one is left out.
C9_Witness ==
    /\ Grouped
    /\ Len(call.ret[1].groups) > 20
    /\ Len(call.ret[1].result) = 20
    /\ call.ret[1].groups[1].count = 2
    /\ call.ret[1].result[1].count = 3
    /\ call.ret[1].result[20].count = 2

\* Where the listed suffixes occur in a stem: <<k, i>> when suffix k starts at i
SuffixOccurrences(stem) ==
    {x \in (1..Len(DUPLICATE_SUFFIXES)) \X (1..Len(stem)) :
        OccursAt(stem, Chars(DUPLICATE_SUFFIXES[x[1]]), x[2])}

\* The stem without the characters of the occurrence x
CutOut(stem, x) ==
    SubSeq(stem, 1, x[2] - 1)
        \o SubSeq(stem, x[2] + Len(Chars(DUPLICATE_SUFFIXES[x[1]])), Len(stem))

\* The group of the result that lists path, if any
GroupsWith(result, path) == {j \in 1..Len(result) : path \in result[j].files}

\* C23: duplicate-key normalization removes a listed suffix wherever it occurs in
\* the lower-cased stem, not only at the end: the_old_man.py and the_man.py get the
\* same key and are reported as one duplicate group.
C23_SuffixRemovedAnywhere ==
    Grouped =>
        \A seen \in {walk(call.arg, IGNORED_DIRS, TRUE)} :
            /\ \A i \in 1..Len(seen) :
                  \A stem \in {lower(path_stem(Chars(seen[i].name)))} :
                      \A occ \in {SuffixOccurrences(stem)} :
                          Cardinality(occ) = 1 =>
                              \A x \in occ :
                                  DuplicateKey(seen[i].name)[1] = Join(CutOut(stem, x))
            /\ {"the_old_man.py", "the_man.py"} \subseteq {rel_path(seen[i]) : i \in 1..Len(seen)}
                  => \E j \in 1..Len(call.ret[1].result) :
                         /\ {"the_old_man.py", "the_man.py"} \subseteq call.ret[1].result[j].files
                         /\ call.ret[1].result[j].base_name = "the_man.py"

\* the_old_man.py and the_man.py beside an unrelated file: one group of the two
C23_Witness ==
    /\ Grouped
    /\ Len(call.arg) = 3
    /\ Len(call.ret[1].result) = 1
    /\ call.ret[1].result[1].files = {"the_old_man.py", "the_man.py"}
    /\ call.ret[1].result[1].count = 2

\* copy_of_report.py and report.py are both walked
BothReports ==
    {"copy_of_report.py", "report.py"}
        \subseteq {rel_path(f) : f \in Range(walk(call.arg, IGNORED_DIRS, TRUE))}

\* C24 as stated: files with the stems copy_of_report and report and the same
\* extension are merged into one duplicate group by find_duplicates.
C24_CopyOfReportMerged ==
    Grouped /\ BothReports =>
        \E j \in 1..Len(call.ret[1].result) :
            {"copy_of_report.py", "report.py"} \subseteq call.ret[1].result[j].files

\* C24, amended: suffix substrings are stripped anywhere in the stem, but the stem
\* copy_of_report holds none of the listed substrings (the list has _copy and
\* " copy", which need an underscore or a space before copy), so copy_of_report.py
\* keeps the key (copy_of_report, .py), report.py the key (report, .py), and
\* find_duplicates puts the two in no common group.
C24_CopyOfReportKeptApart ==
    Grouped /\ BothReports =>
        /\ SuffixOccurrences(Chars("copy_of_report")) = {}
        /\ DuplicateKey("copy_of_report.py") = <<"copy_of_report", ".py">>
        /\ DuplicateKey("report.py") = <<"report", ".py">>
        /\ \A j \in 1..Len(call.ret[1].groups) :
              ~({"copy_of_report.py", "report.py"} \subseteq call.ret[1].groups[j].files)
        /\ \A j \in 1..Len(call.ret[1].result) :
              ~({"copy_of_report.py", "report.py"} \subseteq call.ret[1].result[j].files)

\* copy_of_report.py and report.py alone in a tree: no duplicate group
C24_Witness ==
    /\ Grouped
    /\ BothReports
    /\ Len(call.arg) = 2
    /\ call.ret[1].result = <<>>

----------------------------------------------------------------------------
(* Properties of the requirements reconciler (checked under SpecPyDeps).   *)

Reconciled == call.fn = "reconcile_requirements" /\ call.ret # <<>>

\* a name with hyphens mapped to underscores and in lower case
HyphenCaseFolded(name) == Join(lower(replace(Chars(name), <<"-">>, <<"_">>)))

FlaggedPackages == {call.ret[1][i].package : i \in 1..Len(call.ret[1])}

\* C10: the requirements reconciler does not flag a declared dependency when some
\* name of the import set equals it after mapping hyphens to underscores and
\* lower-casing: my-pkg declared with my_pkg imported, and my_pkg declared with
\* my-pkg in the import set, are both left alone.
C10_HyphenUnderscoreBothWays ==
    Reconciled =>
        /\ \A i \in 1..Len(call.arg.lines) :
               LET pkg == RequirementName(Join(strip(Chars(call.arg.lines[i]))))
               IN  (\E imp \in call.arg.all_imports :
                        HyphenCaseFolded(imp) = HyphenCaseFolded(pkg))
                       => pkg \notin FlaggedPackages
        /\ ("my-pkg" \in Range(call.arg.lines) /\ "my_pkg" \in call.arg.all_imports)
               => "my-pkg" \notin FlaggedPackages
        /\ ("my_pkg" \in Range(call.arg.lines) /\ "my-pkg" \in call.arg.all_imports)
               => "my_pkg" \notin FlaggedPackages

\* my-pkg is declared and my_pkg imported, beside a dependency that is flagged
C10_Witness ==
    /\ Reconciled
    /\ call.arg.lines = <<"my-pkg", "requests>=2.0">>
    /\ call.arg.all_imports = {"my_pkg"}
    /\ FlaggedPackages = {"requests"}

\* my_pkg is declared and the import set holds my-pkg
C10_WitnessReverse ==
    /\ Reconciled
    /\ call.arg.lines = <<"my_pkg">>
    /\ call.arg.all_imports = {"my-pkg"}
    /\ FlaggedPackages = {}

----------------------------------------------------------------------------
(* Properties of analyze_repo (checked under Spec).                        *)

ReportReturned == pc = "done" /\ analysis # <<>>

\* The findings of the report, category by category
ReportFindings(r) ==
    [dead_files |-> r.categories.dead_files.items,
     duplicates |-> r.categories.dead_files.duplicates,
     dependencies |-> r.categories.dependencies.items,
     documentation |-> r.categories.documentation.items,
     configuration |-> r.categories.configuration.items,
     legacy |-> r.categories.legacy.items]

NonLegacy == {"dead_files", "duplicates", "dependencies", "documentation", "configuration"}

\* C1: every finding of the report (dead files, duplicate groups, orphaned
\* dependencies, documentation drift, orphaned configs, legacy code) carries an
\* integer confidence between 0 and 100, whatever the flags, the age of the file
\* (future mtimes included) and the number of broken references.
C1_ConfidenceInRange ==
    ReportReturned =>
        \A kind \in DOMAIN ReportFindings(analysis[1]) :
            \A i \in 1..Len(ReportFindings(analysis[1])[kind]) :
                /\ "confidence" \in DOMAIN ReportFindings(analysis[1])[kind][i]
                /\ ReportFindings(analysis[1])[kind][i].confidence \in 0..100

\* A report with a dead file of the future (35), an AI artifact whose raw score is
\* clamped to 100, and a document with more broken references than the cap allows for
C1_Witness ==
    /\ ReportReturned
    /\ \E i \in 1..Len(analysis[1].categories.dead_files.items) :
          LET d == analysis[1].categories.dead_files.items[i]
          IN  d.age_days < 0 /\ d.confidence = 35
    /\ \E i \in 1..Len(analysis[1].categories.dead_files.items) :
          LET d == analysis[1].categories.dead_files.items[i]
          IN  d.is_ai_artifact /\ d.confidence = 100
    /\ \E i \in 1..Len(analysis[1].categories.documentation.items) :
          LET d == analysis[1].categories.documentation.items[i]
          IN  40 + 10 * d.broken_count > 100 /\ d.confidence = 80

\* How many findings of the listed categories satisfy the test on their confidence
CountIn(r, kinds, lo, hi) ==
    LET n(kind) ==
            Cardinality({i \in 1..Len(ReportFindings(r)[kind]) :
                            /\ lo <= ReportFindings(r)[kind][i].confidence
                            /\ ReportFindings(r)[kind][i].confidence <= hi})
    IN  n("dead_files") + n("duplicates") + n("dependencies") + n("documentation")
        + n("configuration") + (IF "legacy" \in kinds THEN n("legacy") ELSE 0)

\* C4: in the report, quick_wins is exactly the findings with confidence >= 80 of
\* the dead-file, duplicate, dependency, documentation and configuration findings
\* (never a legacy finding), and decisions_needed is exactly the findings with
\* 50 <= confidence < 80 of those and of the legacy findings: nothing outside the
\* ranges is listed, nothing inside them is missing.
C4_QuickWinsAndDecisions ==
    ReportReturned =>
        LET r == analysis[1]
            found == ReportFindings(r)
            quick == {r.quick_wins[i] : i \in 1..Len(r.quick_wins)}
            decide == {r.decisions_needed[i] : i \in 1..Len(r.decisions_needed)}
            Of(kinds) == UNION {{found[k][i] : i \in 1..Len(found[k])} : k \in kinds}
        IN  /\ quick = {x \in Of(NonLegacy) : x.confidence >= 80}
            /\ decide = {x \in Of(NonLegacy \cup {"legacy"}) :
                            50 <= x.confidence /\ x.confidence < 80}
            /\ quick \cap Of({"legacy"}) = {}
            /\ Len(r.quick_wins) = CountIn(r, NonLegacy, 80, 100)
            /\ Len(r.decisions_needed) = CountIn(r, NonLegacy \cup {"legacy"}, 50, 79)

\* A report with a quick win at exactly 80, a decision needed, a legacy finding (40)
\* that is in neither list
C4_Witness ==
    /\ ReportReturned
    /\ \E i \in 1..Len(analysis[1].quick_wins) : analysis[1].quick_wins[i].confidence = 80
    /\ analysis[1].decisions_needed # <<>>
    /\ analysis[1].categories.legacy.items # <<>>
    /\ \A i \in 1..Len(analysis[1].decisions_needed) :
          analysis[1].decisions_needed[i].category # "legacy"

\* git is missing, the path is in no repository, or git log fails there
GitFails == ~env.git.installed \/ ~env.git.under_vc \/ ~env.git.log_ok

\* C5: whenever git is absent, the path is not under version control or a git call
\* times out or fails, the report has has_git = false with ai_commits,
\* ai_signed_commits and stale_branches empty: never has_git = false beside stale
\* branches, never has_git = true after git log failed.
C5_GitFailureMeansNoGit ==
    ReportReturned =>
        LET r == analysis[1]
        IN  /\ GitFails =>
                /\ ~r.has_git
                /\ r.git_archaeology.ai_commits = <<>>
                /\ r.git_archaeology.ai_signed_commits = <<>>
                /\ r.git_archaeology.stale_branches = <<>>
            /\ ~r.has_git => r.git_archaeology.stale_branches = <<>>

\* C6: whatever fails on one item inside a detector (a file that cannot be stat'ed,
\* opened, decoded or parsed, a manifest of unexpected shape or encoding), no
\* exception leaves analyze_repo and the run ends with a report.
C6_NoExceptionEscapes ==
    /\ err = <<>>
    /\ pc # "raised"

\* the root package.json is text that is not JSON
BadPackageJson ==
    /\ RootExists(env.files, "package.json")
    /\ LoadJson(TheRootFile(env.files, "package.json")) = "JSONDecodeError"

\* C7: when the root package.json is not valid JSON, the JavaScript dependency
\* detector returns no finding for it, the config-orphan and monorepo detectors go
\* on as if it declared no package, and none of the three ends the run.
C7_BadPackageJsonIsNoPackages ==
    BadPackageJson =>
        /\ err # <<>> =>
               err[1].detector \notin {"detect_monorepo", "find_orphaned_js_deps",
                                       "find_orphaned_configs"}
        /\ "monorepo_info" \in DOMAIN loc =>
               /\ loc.monorepo_info.packages = <<>>
               /\ loc.monorepo_info.tool # <<"yarn_workspaces">>
        /\ "orphaned_deps" \in DOMAIN loc =>
               \A i \in 1..Len(loc.orphaned_deps) : loc.orphaned_deps[i].source # "package.json"
        /\ "orphaned_configs" \in DOMAIN loc =>
               \A i \in 1..Len(loc.orphaned_configs) :
                   loc.orphaned_configs[i].tool \notin {"babel", "webpack", "rollup", "jest",
                                                        "eslint", "prettier", "typescript"}
        /\ pc = "done" => analysis # <<>>

\* A run on a tree whose package.json is not JSON, ended with a report that holds a
\* finding of another detector
C7_Witness ==
    /\ BadPackageJson
    /\ ReportReturned
    /\ analysis[1].categories.dependencies.items = <<>>
    /\ analysis[1].summary.total_issues > 0

----------------------------------------------------------------------------
(* Properties of the documentation drift detector (checked under SpecDrift). *)

DriftReturned == call.fn = "find_documentation_drift" /\ call.ret # <<>>

\* The document docs/a.md of the tree holds the link [x](./missing.md)
HasDocsLink(files) ==
    \E i \in 1..Len(files) :
        /\ rel_path(files[i]) = "docs/a.md"
        /\ files[i].open = "ok"
        /\ \E k \in 1..Len(files[i].content.links) :
              files[i].content.links[k] = Link("x", "./missing.md")

\* find_documentation_drift has a broken_link entry for [x](./missing.md) of docs/a.md
DocsLinkFlagged(findings) ==
    \E i \in 1..Len(findings) :
        /\ findings[i].path = "docs/a.md"
        /\ \E k \in 1..Len(findings[i].broken_references) :
              findings[i].broken_references[k] =
                  [type |-> "broken_link", reference |-> "missing.md", link_text |-> "x"]

\* A file named missing.md is somewhere in the tree the first walk sees
BasenameExists(files) ==
    \E i \in 1..Len(files) :
        files[i].name = "missing.md" /\ Visible(files[i], IGNORED_DIRS, TRUE)

\* C11: the link [x](./missing.md) of docs/a.md is flagged broken only if neither
\* docs/missing.md exists nor a file named missing.md exists anywhere in the
\* non-ignored tree; with a missing.md in another directory it is not flagged.
C11_BasenameAnywhereClearsLink ==
    DriftReturned /\ HasDocsLink(call.arg) /\ DocsLinkFlagged(call.ret[1])
        => /\ ~path_exists(call.arg, <<"docs", "missing.md">>)
           /\ ~BasenameExists(call.arg)

\* The broken references of a document, counted from the tree: the links that are
\* not external and lead to no path of the tree and to no entry of existing_files,
\* and the fenced-code file names that are no entry of existing_files
BrokenCount(files, doc) ==
    LET links == doc.content.links
        code_refs == doc.content.code_refs
    IN  Cardinality({k \in 1..Len(links) :
                        /\ ~IsExternalLink(links[k].path)
                        /\ ~path_exists(files, ResolveLink(doc, links[k].path))
                        /\ JoinWith(ResolveLink(doc, links[k].path), "/")
                               \notin existing_files(files)})
        + Cardinality({k \in 1..Len(code_refs) : code_refs[k] \notin existing_files(files)})

\* The documents find_documentation_drift reads: .md, .rst and .txt files its walk
\* visits, whose name has no leading dot, that open and stat
DocsRead(files) ==
    {k \in 1..Len(files) :
        /\ Visible(files[k], DOC_IGNORED_DIRS, TRUE)
        /\ IsDocFile(files[k])
        /\ files[k].open = "ok" /\ files[k].stat = "ok"
        /\ "links" \in DOMAIN files[k].content}

\* C18: find_documentation_drift emits at most one finding per documentation file,
\* only when the file has at least one broken reference; the finding lists at most
\* 5 broken references and its confidence is min(40 + 10 * n, 80), n being the
\* uncapped number of broken references of the file, so it lies in 50..80.
C18_OneFindingPerDocCappedAtFive ==
    DriftReturned =>
        \A items \in {call.ret[1]} :
            /\ \A i, j \in 1..Len(items) : items[i].path = items[j].path => i = j
            /\ \A i \in 1..Len(items) :
                  \E k \in DocsRead(call.arg) : \E n \in {BrokenCount(call.arg, call.arg[k])} :
                      /\ rel_path(call.arg[k]) = items[i].path
                      /\ n >= 1
                      /\ items[i].broken_count = n
                      /\ Len(items[i].broken_references) = (IF n < 5 THEN n ELSE 5)
                      /\ items[i].confidence = (IF 40 + 10 * n < 80 THEN 40 + 10 * n ELSE 80)
                      /\ items[i].confidence \in 50..80
            /\ \A k \in DocsRead(call.arg) :
                  BrokenCount(call.arg, call.arg[k]) = 0
                      => \A i \in 1..Len(items) : items[i].path # rel_path(call.arg[k])

\* A document with more than 5 broken references: 5 listed, all counted, confidence 80,
\* beside a document without any, which has no finding
C18_Witness ==
    /\ DriftReturned
    /\ Len(call.ret[1]) = 1
    /\ call.ret[1][1].broken_count > 5
    /\ Len(call.ret[1][1].broken_references) = 5
    /\ call.ret[1][1].confidence = 80
    /\ \E k \in DocsRead(call.arg) : BrokenCount(call.arg, call.arg[k]) = 0

----------------------------------------------------------------------------
(* Properties of the configuration detector (checked under SpecConfig).    *)

ConfigReturned ==
    call.fn = "find_orphaned_configs" /\ call.ret # <<>> /\ call.ret[1].raised = "none"

ToolEntry(tool, companions) == [tool |-> tool, companions |-> companions]

\* The entries of the configuration table a file name falls under, read off the
\* table by name: the tool and its companion manifests
TableEntriesOf(name) ==
    LET cs == Chars(name)
        js == {"package.json"}
        py == {"requirements.txt", "pyproject.toml"}
    IN  (IF name = ".babelrc" THEN {ToolEntry("babel", js)} ELSE {})
        \cup (IF name = "webpack.config.js" THEN {ToolEntry("webpack", js)} ELSE {})
        \cup (IF name = "rollup.config.js" THEN {ToolEntry("rollup", js)} ELSE {})
        \cup (IF name \in {"jest.config.js", "jest.config.ts", "jest.config.json"}
              THEN {ToolEntry("jest", js)} ELSE {})
        \cup (IF startswith(cs, Chars(".eslintrc")) THEN {ToolEntry("eslint", js)} ELSE {})
        \cup (IF startswith(cs, Chars(".prettierrc")) THEN {ToolEntry("prettier", js)} ELSE {})
        \cup (IF startswith(cs, Chars("tsconfig")) /\ Len(cs) >= 13 /\ endswith(cs, Chars(".json"))
              THEN {ToolEntry("typescript", js)} ELSE {})
        \cup (IF name = "setup.cfg"
              THEN {ToolEntry("setuptools", {"setup.py", "pyproject.toml"})} ELSE {})
        \cup (IF name = ".pylintrc" THEN {ToolEntry("pylint", py)} ELSE {})
        \cup (IF name = ".flake8" THEN {ToolEntry("flake8", py)} ELSE {})
        \cup (IF name = "mypy.ini" THEN {ToolEntry("mypy", py)} ELSE {})
        \cup (IF name = ".travis.yml" THEN {ToolEntry("travis", {})} ELSE {})
        \cup (IF name = "Jenkinsfile" THEN {ToolEntry("jenkins", {})} ELSE {})

ToolNames ==
    {"babel", "webpack", "rollup", "jest", "eslint", "prettier", "typescript", "setuptools",
     "pylint", "flake8", "mypy", "travis", "circleci", "jenkins"}

\* The names under dependencies and devDependencies of a root package.json that reads
\* as a JSON object
DeclaredPackages(files) ==
    UNION {UNION {Range(f.content.members[t].keys) :
                     t \in {"dependencies", "devDependencies"} \cap DOMAIN f.content.members} :
             f \in {g \in RootFile(files, "package.json") :
                      g.open = "ok" /\ "members" \in DOMAIN g.content}}

\* What the claim says of file f and tool: flagged exactly under these conditions
ShouldFlag(files, f, tool) ==
    \E e \in TableEntriesOf(f.name) :
        /\ e.tool = tool
        /\ e.companions # {}
        /\ tool \notin DeclaredPackages(files)
        /\ \A c \in e.companions : ~path_exists(files, <<c>>)

FlaggedConfigs(items) == {[path |-> items[i].path, tool |-> items[i].tool] : i \in 1..Len(items)}

\* C12: find_orphaned_configs flags a configuration file (one its walk visits and
\* can stat) for a tool if and only if the file name falls under a table entry of
\* that tool with a non-empty companion list, the tool is not among the
\* dependencies/devDependencies of the root package.json, and no companion
\* manifest exists at the repository root; .travis.yml, Jenkinsfile and the
\* CircleCI entry, whose companion list is empty, are never flagged.
C12_FlaggedIffNoToolNoCompanion ==
    ConfigReturned =>
        \A flagged \in {FlaggedConfigs(call.ret[1].items)} :
            /\ Cardinality(flagged) = Len(call.ret[1].items)
            /\ \A x \in flagged : x.tool \notin {"travis", "circleci", "jenkins"}
            /\ \A x \in flagged : \E i \in 1..Len(call.arg) : rel_path(call.arg[i]) = x.path
            /\ \A i \in 1..Len(call.arg) : \A tool \in ToolNames :
                  Visible(call.arg[i], IGNORED_DIRS, TRUE) /\ call.arg[i].stat = "ok"
                      => ([path |-> rel_path(call.arg[i]), tool |-> tool] \in flagged
                            <=> ShouldFlag(call.arg, call.arg[i], tool))

\* setup.cfg is flagged beside a Jenkinsfile that is not, in a tree without setup.py
\* and pyproject.toml
C12_Witness ==
    /\ ConfigReturned
    /\ \E i \in 1..Len(call.arg) : call.arg[i].name = "Jenkinsfile" /\ call.arg[i].dir = <<>>
    /\ FlaggedConfigs(call.ret[1].items) = {[path |-> "setup.cfg", tool |-> "setuptools"]}

----------------------------------------------------------------------------
(* Properties of the commit classifier (checked under SpecCommits).        *)

CommitsAnalyzed == call.fn = "analyze_commits" /\ call.ret # <<>>

\* The entries of AI_COMMIT_PATTERNS a subject matches (case-insensitive search)
MatchingEntries(subject) ==
    {k \in 1..Len(AI_COMMIT_PATTERNS) : re_search(AI_COMMIT_PATTERNS[k].re, Chars(subject), TRUE)}

\* The signatures of AI_COMMIT_SIGNATURES in subject + "\n" + body
SignaturesIn(c) ==
    {k \in 1..Len(AI_COMMIT_SIGNATURES) :
        contains(Chars(c.subject \o "\n" \o c.body), Chars(AI_COMMIT_SIGNATURES[k]))}

Hashes(list) == {list[i].hash : i \in 1..Len(list)}

Hash8(c) == Join(Take(Chars(c.hash), 8))

\* C13: a commit without an AI signature is classified AI-pattern if and only if
\* its subject line matches at least 2 distinct entries of the AI commit pattern
\* list (case-insensitive search): "Fixed bug" is not classified, "fix: fixed the
\* bug, cleaned up" is.
C13_TwoPatternsNeeded ==
    CommitsAnalyzed =>
        \A i \in 1..Len(call.arg) :
            SignaturesIn(call.arg[i]) = {} =>
                /\ Hash8(call.arg[i]) \in Hashes(call.ret[1].ai_commits)
                      <=> Cardinality(MatchingEntries(call.arg[i].subject)) >= 2
                /\ call.arg[i].subject = "Fixed bug"
                      => Hash8(call.arg[i]) \notin Hashes(call.ret[1].ai_commits)
                /\ call.arg[i].subject = "fix: fixed the bug, cleaned up"
                      => Hash8(call.arg[i]) \in Hashes(call.ret[1].ai_commits)

\* C20: a commit whose full message (subject, newline, body) contains an AI
\* signature is classified AI-signed and never AI-pattern, even when its subject
\* matches two or more patterns; it counts toward total_commits but not toward
\* ai_commit_count nor the numerator of ai_commit_ratio, and the two lists are
\* disjoint.
C20_SignedNeverPattern ==
    CommitsAnalyzed /\ call.arg # <<>> =>
        \A r \in {call.ret[1]} :
            /\ \A i \in 1..Len(call.arg) :
                  SignaturesIn(call.arg[i]) # {} =>
                      /\ Hash8(call.arg[i]) \in Hashes(r.ai_signed_commits)
                      /\ Hash8(call.arg[i]) \notin Hashes(r.ai_commits)
            /\ r.total_commits = Len(call.arg)
            /\ r.ai_commit_count
                  <= Cardinality({i \in 1..Len(call.arg) : SignaturesIn(call.arg[i]) = {}})
            /\ r.ai_commit_ratio[1] = r.ai_commit_count
            /\ Hashes(r.ai_signed_commits) \cap Hashes(r.ai_commits) = {}

----------------------------------------------------------------------------
(* Properties of the cleanliness check (checked under SpecClean).          *)

CleanlinessChecked == call.fn = "check_cleanliness" /\ call.ret # <<>>

\* The sum of the five counts the claim names
FiveCounts(s) ==
    s.dead_files + s.duplicates + s.orphaned_dependencies + s.documentation_drift
        + s.orphaned_configs

\* verdict.get(key) is True
IsTrue(verdict, key) == key \in DOMAIN verdict /\ verdict[key] = TRUE

\* C14: check_cleanliness reports is_clean = true exactly when dead_files +
\* duplicates + orphaned_dependencies + documentation_drift + orphaned_configs is 0,
\* nearly_clean = true exactly when that sum is between 1 and 4, and a plain count
\* (is_clean = false, nearly_clean = false) when it is 5 or more; the legacy count
\* never influences the verdict.
C14_CleanlinessBySumOfFive ==
    CleanlinessChecked =>
        /\ IsTrue(call.ret[1], "is_clean") <=> FiveCounts(call.arg) = 0
        /\ IsTrue(call.ret[1], "nearly_clean") <=> FiveCounts(call.arg) \in 1..4
        /\ FiveCounts(call.arg) >= 5 =>
              call.ret[1] = [is_clean |-> FALSE, nearly_clean |-> FALSE,
                             issues_count |-> FiveCounts(call.arg)]
        /\ FiveCounts(call.arg) > 0 => call.ret[1].issues_count = FiveCounts(call.arg)
        /\ \A legacy \in 0..(MaxCount + 5) :
              check_cleanliness([call.arg EXCEPT !.legacy_markers = legacy]) = call.ret[1]

\* Four findings and legacy markers besides: nearly clean, where counting the
\* legacy markers would give five or more
C14_Witness ==
    /\ CleanlinessChecked
    /\ FiveCounts(call.arg) = 4
    /\ call.arg.legacy_markers >= 1
    /\ call.ret[1] = [is_clean |-> FALSE, nearly_clean |-> TRUE, issues_count |-> 4]

----------------------------------------------------------------------------
(* Properties of the narrative (checked under SpecNarrative).              *)

RanTwice == call.fn = "analyze_repo" /\ Len(call.ret) = 2

\* A finding without its narrative text
Plain(item) == [k \in DOMAIN item \ {"gratitude"} |-> item[k]]

PlainList(items) == [i \in 1..Len(items) |-> Plain(items[i])]

\* What the claim compares in two reports: the counts of the summary and of the
\* categories, the findings with their confidences and groupings in the order
\* the report lists them, the quick wins, the decisions and the verdict
Compared(r) ==
    [summary |-> r.summary,
     counts |-> [c \in DOMAIN r.categories |-> r.categories[c].count],
     findings |-> [c \in DOMAIN ReportFindings(r) |-> PlainList(ReportFindings(r)[c])],
     quick_wins |-> PlainList(r.quick_wins),
     decisions_needed |-> PlainList(r.decisions_needed),
     cleanliness |-> r.cleanliness]

----------------------------------------------------------------------------
(* Properties of the dead-file detector (checked under SpecDead).          *)

DeadFilesFound == call.fn = "find_dead_files" /\ call.ret # <<>>

\* The entries of a pattern list a file name matches (re.match, re.IGNORECASE)
MatchedIn(patterns, name) ==
    {k \in 1..Len(patterns) : re_match(patterns[k].re, Chars(name), TRUE)}

Lowest(S) == CHOOSE k \in S : \A j \in S : k <= j

\* The file name of a finding: what follows the last / of its path
BaseName(path) ==
    LET parts == split(Chars(path), "/") IN Join(parts[Len(parts)])

\* C16: find_dead_files classifies a file by its file name only: the AI-artifact
\* patterns in list order first and, only if none matched, the dead-file patterns in
\* list order; the first matching pattern is recorded, is_ai_artifact is true
\* exactly when an AI-artifact pattern matched, matching is case-insensitive, and
\* two files with the same file name in different directories get the same pattern
\* and AI flag.
C16_FirstMatchByFileName ==
    DeadFilesFound =>
        \A items \in {call.ret[1]} :
            /\ \A i \in 1..Len(items) :
                  \A ai \in {MatchedIn(AI_TOOL_ARTIFACTS, BaseName(items[i].path))} :
                  \A dead \in {MatchedIn(DEAD_FILE_PATTERNS, BaseName(items[i].path))} :
                      /\ items[i].is_ai_artifact <=> ai # {}
                      /\ ai # {} => items[i].pattern = AI_TOOL_ARTIFACTS[Lowest(ai)].src
                      /\ ai = {} => /\ dead # {}
                                    /\ items[i].pattern = DEAD_FILE_PATTERNS[Lowest(dead)].src
            /\ \A i, j \in 1..Len(items) :
                  lower(Chars(BaseName(items[i].path))) = lower(Chars(BaseName(items[j].path)))
                      => /\ items[i].pattern = items[j].pattern
                         /\ items[i].is_ai_artifact = items[j].is_ai_artifact
            /\ \A k \in 1..Len(call.arg) :
                  /\ Visible(call.arg[k], IGNORED_DIRS, TRUE)
                  /\ call.arg[k].stat = "ok"
                  /\ MatchedIn(AI_TOOL_ARTIFACTS, call.arg[k].name)
                         \cup MatchedIn(DEAD_FILE_PATTERNS, call.arg[k].name) # {}
                  => \E i \in 1..Len(items) : items[i].path = rel_path(call.arg[k])

\* temp_old.py, which matches two dead-file patterns, at the root and under docs/
\* with another age: both recorded under the first of the two; and PLAN.md as an
\* AI artifact
C16_Witness ==
    /\ DeadFilesFound
    /\ Len(call.ret[1]) = 3
    /\ \E i, j, k \in 1..3 :
          /\ call.ret[1][i].path = "temp_old.py"
          /\ call.ret[1][j].path = "docs/temp_old.py"
          /\ call.ret[1][i].pattern = DEAD_FILE_PATTERNS[1].src
          /\ call.ret[1][j].pattern = DEAD_FILE_PATTERNS[1].src
          /\ call.ret[1][i].confidence # call.ret[1][j].confidence
          /\ call.ret[1][k].is_ai_artifact

----------------------------------------------------------------------------
(* Properties of the dependency detectors (checked under SpecDeps).        *)

DepsReturned ==
    call.fn = "find_all_orphaned_deps" /\ call.ret # <<>> /\ call.ret[1].raised = "none"

\* The import set a reconciler of the tree works with, by ecosystem
ImportSet(files, ecosystem) ==
    LET Of(fs, e) ==
            UNION {IF e = "python" THEN PythonImportsOf(fs[i])
                   ELSE IF e = "javascript" THEN JsImportsOf(fs[i])
                   ELSE IF e = "go" THEN GoImportsOf(fs[i])
                   ELSE RustUsesOf(fs[i]) : i \in 1..Len(fs)}
    IN  IF ecosystem = "python" THEN Of(PythonFiles(files), ecosystem)
        ELSE IF ecosystem = "javascript" THEN Of(JsFiles(files), ecosystem)
        ELSE IF ecosystem = "go" THEN Of(GoFiles(files), ecosystem)
        ELSE Of(RustFiles(files), ecosystem)

\* C17: in every ecosystem's reconciler (Python, JavaScript, Go, Rust) a declared
\* name is treated as used whenever the import set contains a name equal to it up
\* to hyphen/underscore interchange and letter case: My-Pkg of package.json with
\* an import of my_pkg, or the crate Serde with use serde, is not flagged.
C17_FoldedNameIsUsedEverywhere ==
    DepsReturned =>
        \A i \in 1..Len(call.ret[1].items) :
            \A imp \in ImportSet(call.arg, call.ret[1].items[i].ecosystem) :
                HyphenCaseFolded(imp) # HyphenCaseFolded(call.ret[1].items[i].package)


----------------------------------------------------------------------------
(* Properties of the legacy detector (checked under SpecLegacy).           *)

LegacyReturned == call.fn = "find_legacy_code" /\ call.ret # <<>>

RECURSIVE KeptCount(_, _)
\* The matches kept of a file: at most three of each pattern, from pattern i on
KeptCount(found, i) ==
    IF i > Len(found) THEN 0
    ELSE (IF Len(found[i]) < 3 THEN Len(found[i]) ELSE 3) + KeptCount(found, i + 1)

\* The texts among the first three matches of some pattern
KeptTexts(found) ==
    {found[i][k] : <<i, k>> \in {x \in (1..Len(found)) \X (1..3) : x[2] <= Len(found[x[1]])}}

\* The files find_legacy_code reports when there is room: source files its walk
\* visits that open, stat and have a match
LegacyFiles(files) ==
    {k \in 1..Len(files) :
        /\ Visible(files[k], IGNORED_DIRS, TRUE)
        /\ EndsWithAny(files[k].name, LEGACY_EXTENSIONS)
        /\ files[k].open = "ok" /\ files[k].stat = "ok"
        /\ KeptCount(Field(files[k], "marker_matches", <<>>), 1) > 0}

\* C19: find_legacy_code keeps at most 3 matches per marker pattern per file, lists
\* at most 5 distinct markers per finding, returns at most 15 findings in order of
\* non-increasing marker_count, and gives every finding confidence 40 whatever its
\* marker count and the age of its file.
C19_LegacyCaps ==
    LegacyReturned =>
        \A items \in {call.ret[1]} :
            /\ Len(items) <= 15
            /\ Len(items) = (IF Cardinality(LegacyFiles(call.arg)) < 15
                             THEN Cardinality(LegacyFiles(call.arg)) ELSE 15)
            /\ \A i, j \in 1..Len(items) :
                  i < j => items[i].marker_count >= items[j].marker_count
            /\ \A i \in 1..Len(items) :
                  /\ items[i].confidence = 40
                  /\ Len(items[i].markers) <= 5
                  /\ \A a, b \in 1..Len(items[i].markers) :
                        items[i].markers[a] = items[i].markers[b] => a = b
                  /\ \E k \in LegacyFiles(call.arg) :
                        \E found \in {call.arg[k].content.marker_matches} :
                            /\ rel_path(call.arg[k]) = items[i].path
                            /\ items[i].age_days = call.arg[k].age
                            /\ items[i].marker_count = KeptCount(found, 1)
                            /\ items[i].marker_count <= 3 * Len(found)
                            /\ Range(items[i].markers) \subseteq KeptTexts(found)

\* More than 15 files with markers, of which 15 are returned, led by a file with a
\* pattern matched more than 3 times and more than 5 distinct markers, with
\* findings of different ages and marker counts
C19_Witness ==
    /\ LegacyReturned
    /\ Cardinality(LegacyFiles(call.arg)) > 15
    /\ Len(call.ret[1]) = 15
    /\ call.ret[1][1].path = "rich.js"
    /\ call.ret[1][1].marker_count = 8
    /\ Len(call.ret[1][1].markers) = 5
    /\ \E i \in 1..15 : /\ call.ret[1][i].marker_count < 8
                         /\ call.ret[1][i].age_days # call.ret[1][1].age_days

----------------------------------------------------------------------------
(* Properties of the tree walks (checked under SpecWalks).                 *)

WalksDone == call.fn = "detector_walks" /\ call.ret # <<>>

\* C21: every detector's tree walk prunes the same fixed set of ignored
\* directories: a file is visible to one detector if and only if it is visible to
\* every other detector.
C21_SameVisibility ==
    WalksDone =>
        \A d1, d2 \in DOMAIN call.ret[1] : call.ret[1][d1] = call.ret[1][d2]

----------------------------------------------------------------------------
(* Properties of sample_mode (checked under SpecSample).                   *)

SampledRuns == IF call.fn = "analyze_repo(sample_mode)" THEN 1..Len(call.ret) ELSE {}

\* A report without sample_mode and without the narrative texts
WithoutSampleMode(r) ==
    [k \in DOMAIN r \ {"sample_mode", "categories", "quick_wins", "decisions_needed"} |-> r[k]]
        @@ Compared(r)

\* C22: the report has sample_mode = true exactly when the file count exceeds 10000
\* or the caller passed sample_mode = true, and the value of sample_mode changes
\* nothing else: for a fixed tree the findings, counts, partitions and cleanliness
\* verdict are the same with sample_mode true and false.
C22_SampleModeIsAdvisory ==
    /\ \A i \in SampledRuns :
          /\ call.ret[i].report.sample_mode
                <=> (call.ret[i].sample_mode \/ call.ret[i].report.file_count > 10000)
          /\ call.ret[i].report.is_large_repo <=> call.ret[i].report.file_count > 10000
    /\ \A i, j \in SampledRuns :
          WithoutSampleMode(call.ret[i].report) = WithoutSampleMode(call.ret[j].report)

\* A tree of exactly 10000 files with a quick win and a decision, analysed once with
\* and once without sample_mode: the reports differ in sample_mode alone
C22_Witness ==
    /\ SampledRuns = {1, 2}
    /\ call.ret[1].report.file_count = 10000
    /\ call.ret[1].sample_mode /\ ~call.ret[2].sample_mode
    /\ call.ret[1].report.sample_mode /\ ~call.ret[2].report.sample_mode
    /\ call.ret[1].report.quick_wins # <<>>
    /\ call.ret[1].report.decisions_needed # <<>>

----------------------------------------------------------------------------
(* Properties of the partition of the report (checked under SpecReport).   *)

Reported == call.fn = "analyze_repo()" /\ call.ret # <<>>

\* C26: a dead-file finding is a quick win (confidence >= 80) if and only if it is a
\* non-AI pattern match older than 90 days or an AI-artifact match at least 30 days
\* old; no file modified within the last 14 days is a quick win, and every
\* dead-file finding has confidence in {35, 50, 65, 70, 75, 80, 85, 90, 95, 100}.
C26_DeadFileQuickWins ==
    Reported =>
        \A r \in {call.ret[1]} :
            \A i \in 1..Len(r.categories.dead_files.items) :
                \A x \in {r.categories.dead_files.items[i]} :
                    /\ x.is_ai_artifact <=> MatchedIn(AI_TOOL_ARTIFACTS, BaseName(x.path)) # {}
                    /\ (x \in Range(r.quick_wins))
                          <=> \/ ~x.is_ai_artifact /\ x.age_days > 90
                              \/ x.is_ai_artifact /\ x.age_days >= 30
                    /\ (x \in Range(r.quick_wins)) <=> x.confidence >= 80
                    /\ x.age_days <= 14 => x \notin Range(r.quick_wins)
                    /\ x.confidence \in {35, 50, 65, 70, 75, 80, 85, 90, 95, 100}

\* An AI artifact of exactly 30 days, a quick win, beside a pattern match of exactly
\* 90 days, which is none
C26_Witness ==
    /\ Reported
    /\ Len(call.ret[1].quick_wins) = 1
    /\ call.ret[1].quick_wins[1].reason = "dead_file_pattern"
    /\ call.ret[1].quick_wins[1].is_ai_artifact
    /\ call.ret[1].quick_wins[1].age_days = 30
    /\ Len(call.ret[1].categories.dead_files.items) = 2
    /\ \E i \in 1..2 : /\ ~call.ret[1].categories.dead_files.items[i].is_ai_artifact
                       /\ call.ret[1].categories.dead_files.items[i].age_days = 90
                       /\ call.ret[1].categories.dead_files.items[i].confidence = 75

\* C27: in every report quick_wins and decisions_needed are disjoint; every quick win
\* is a dead-file pattern finding or a documentation-drift finding with at least 4
\* broken references; duplicate groups (70), orphaned dependencies (60 or 65) and
\* orphaned configs (55 or 70) are all in decisions_needed and never in quick_wins;
\* legacy findings (40) are in neither list.
C27_PartitionByCategory ==
    Reported =>
        \A r \in {call.ret[1]} :
        \A found \in {ReportFindings(r)} :
        \A quick \in {Range(r.quick_wins)} :
        \A decide \in {Range(r.decisions_needed)} :
            /\ quick \cap decide = {}
            /\ \A x \in quick :
                  \/ x.reason = "dead_file_pattern" /\ x \in Range(found.dead_files)
                  \/ /\ x.reason = "documentation_drift"
                     /\ x \in Range(found.documentation)
                     /\ x.broken_count >= 4
            /\ \A x \in Range(found.duplicates) :
                  x.confidence = 70 /\ x \in decide /\ x \notin quick
            /\ \A x \in Range(found.dependencies) :
                  x.confidence \in {60, 65} /\ x \in decide /\ x \notin quick
            /\ \A x \in Range(found.configuration) :
                  x.confidence \in {55, 70} /\ x \in decide /\ x \notin quick
            /\ \A x \in Range(found.legacy) :
                  x.confidence = 40 /\ x \notin decide /\ x \notin quick

\* A report with a dead file as quick win, a duplicate group as decision and a
\* legacy finding in neither list
C27_Witness ==
    /\ Reported
    /\ \E i \in 1..Len(call.ret[1].quick_wins) :
          call.ret[1].quick_wins[i].reason = "dead_file_pattern"
    /\ \E i \in 1..Len(call.ret[1].decisions_needed) :
          call.ret[1].decisions_needed[i].reason = "potential_duplicates"
    /\ call.ret[1].categories.legacy.items # <<>>
    /\ \A i \in 1..Len(call.ret[1].decisions_needed) :
          call.ret[1].decisions_needed[i].category # "legacy"

----------------------------------------------------------------------------
(* Properties of the dependency detectors on nested manifests (checked     *)
(* under SpecManifests).                                                   *)

\* The manifest a detector reads first at the root
RootManifest ==
    [python |-> "requirements.txt", javascript |-> "package.json", go |-> "go.mod",
     rust |-> "Cargo.toml"]

\* The ecosystem is detected, and not through its manifest at the root: through a
\* nested manifest or, for Python, through pyproject.toml, setup.py or Pipfile
DetectedIndirectly(files, e) ==
    /\ e \in DOMAIN detect_ecosystems(files)
    /\ ~RootExists(files, RootManifest[e])

FindingsOf(e) == {i \in 1..Len(call.ret[1].items) : call.ret[1].items[i].ecosystem = e}

\* C28 as stated: an ecosystem detected solely through a nested manifest, or a
\* Python ecosystem detected solely through pyproject.toml, setup.py or Pipfile,
\* contributes no dependency finding.
C28_IndirectEcosystemHasNoFindings ==
    DepsReturned /\ call.ret[1].raised = "none" =>
        \A e \in DOMAIN RootManifest :
            DetectedIndirectly(call.arg, e) => FindingsOf(e) = {}

\* C28, amended: the detectors read manifests at the root only (requirements.txt,
\* requirements-dev.txt, requirements-test.txt, package.json, go.mod, Cargo.toml).
\* A JavaScript, Go or Rust ecosystem detected solely through a nested manifest has
\* no finding; a Python ecosystem detected without a requirements.txt at the root
\* has findings only from a requirements-dev.txt or requirements-test.txt at the
\* root, and none when neither is there, whatever the detecting manifest declares.
C28_OnlyRootManifestsAreRead ==
    DepsReturned /\ call.ret[1].raised = "none" =>
        /\ \A e \in DOMAIN RootManifest \ {"python"} :
              DetectedIndirectly(call.arg, e) => FindingsOf(e) = {}
        /\ DetectedIndirectly(call.arg, "python") =>
              /\ \A i \in FindingsOf("python") :
                    /\ call.ret[1].items[i].source
                          \in {"requirements-dev.txt", "requirements-test.txt"}
                    /\ RootExists(call.arg, call.ret[1].items[i].source)
              /\ \A name \in {"requirements-dev.txt", "requirements-test.txt"} :
                    RootExists(call.arg, name)
                        <=> \E i \in FindingsOf("python") : call.ret[1].items[i].source = name
        /\ \A e \in DOMAIN RootManifest \ DOMAIN detect_ecosystems(call.arg) : FindingsOf(e) = {}
        /\ \A i \in FindingsOf("python") :
              call.ret[1].items[i].package \notin {"django", "black"}
        /\ \A i \in FindingsOf("javascript") : call.ret[1].items[i].package # "react"
        /\ \A i \in FindingsOf("go") : call.ret[1].items[i].package # "github.com/c/d"
        /\ \A i \in FindingsOf("rust") : call.ret[1].items[i].package # "rand"

\* Python detected through pyproject.toml alone with requirements-dev.txt at the
\* root, whose package is the one finding, beside a nested package.json that
\* declares an unused package and has no finding
C28_Witness ==
    /\ DepsReturned
    /\ call.ret[1].raised = "none"
    /\ DOMAIN detect_ecosystems(call.arg) = {"python", "javascript"}
    /\ detect_ecosystems(call.arg).python = <<"pyproject.toml">>
    /\ detect_ecosystems(call.arg).javascript = <<"svc/package.json">>
    /\ Len(call.ret[1].items) = 1
    /\ call.ret[1].items[1].package = "pytest"
    /\ call.ret[1].items[1].source = "requirements-dev.txt"

====
